---------------------------- MODULE Spec2Model ----------------------------
(***************************************************************************)
(* Travel Matching: the preference-learning and ranking engine             *)
(* (src/src/matching.py) and the round scheduler that drives it            *)
(* (src/streamlit_app.py).                                                 *)
(*                                                                         *)
(* Number conventions.  Python floats are modelled by exact rationals      *)
(* <<num, den>> (den > 0, lowest terms).  A score rounded by round(x, 1)   *)
(* is an integer number of TENTHS (50.0 is 500).  A raw weather_score, as  *)
(* the weather provider attaches it before ranking, is an integer number   *)
(* of HUNDREDTHS (65.54 is 6554), so that round(weather_score, 1) is a     *)
(* real conversion; the weather scores of the catalog avoid exact ties     *)
(* (x.x5), which a binary float does not represent.  Style weights are multiples of 0.5 and are stored     *)
(* DOUBLED (3.0 is 6); a match score is a ratio of weighted sums, so the   *)
(* factor cancels.  A destination is a function from field names to        *)
(* integers; a field that is None or missing in Python is not in DOMAIN.   *)
(***************************************************************************)
EXTENDS Integers, Sequences, FiniteSets, TLC

---------------------------------------------------------------------------
(* Bounds of the model *)

\* number of states of the modelled pseudo random generator
RngMod == 3

---------------------------------------------------------------------------
(* Program constants: src/streamlit_app.py *)

ROUNDS == 7
LOCATIONS_PER_ROUND == 3
\* WEATHER_WEIGHT = 0.2, in percent
WEATHER_WEIGHT == 20

---------------------------------------------------------------------------
(* Feature configuration: src/src/matching.py *)

MATCHING_FEATURES ==
  << "safety", "english_level", "crowds", "beach", "culture", "nature",
     "food", "nightlife", "adventure", "romance", "family" >>

\* all_features = MATCHING_FEATURES + ["avg_budget_per_day"]
all_features == MATCHING_FEATURES \o << "avg_budget_per_day" >>

\* weights doubled
DEFAULT_WEIGHTS ==
  [ safety |-> 4, english_level |-> 2, crowds |-> 2, beach |-> 2,
    culture |-> 2, nature |-> 2, food |-> 2, nightlife |-> 2,
    adventure |-> 2, romance |-> 2, family |-> 2 ]

\* TRAVEL_STYLES[style]["weights"], weights doubled
TRAVEL_STYLES ==
  [ beach_relaxation |->
      [ beach |-> 6, safety |-> 4, crowds |-> -3, nature |-> 3,
        romance |-> 2, food |-> 2, nightlife |-> 1, culture |-> 1,
        adventure |-> 1, english_level |-> 2, family |-> 2 ],
    culture_history |->
      [ culture |-> 6, food |-> 4, safety |-> 3, english_level |-> 3,
        nature |-> 2, romance |-> 2, crowds |-> -1, beach |-> 1,
        nightlife |-> 1, adventure |-> 1, family |-> 2 ],
    adventure_nature |->
      [ adventure |-> 6, nature |-> 6, crowds |-> -4, safety |-> 4,
        culture |-> 1, beach |-> 1, food |-> 2, english_level |-> 2,
        nightlife |-> 0, romance |-> 2, family |-> 2 ],
    foodie |->
      [ food |-> 6, culture |-> 4, safety |-> 3, english_level |-> 2,
        nightlife |-> 2, crowds |-> -1, beach |-> 1, nature |-> 2,
        adventure |-> 1, romance |-> 3, family |-> 2 ],
    party_nightlife |->
      [ nightlife |-> 6, beach |-> 3, safety |-> 3, english_level |-> 4,
        food |-> 3, crowds |-> 1, culture |-> 1, nature |-> 1,
        adventure |-> 2, romance |-> 2, family |-> -2 ],
    romantic_getaway |->
      [ romance |-> 6, safety |-> 5, food |-> 4, beach |-> 4,
        crowds |-> -4, nature |-> 4, culture |-> 3, nightlife |-> 2,
        english_level |-> 2, adventure |-> 2, family |-> -2 ],
    family_vacation |->
      [ family |-> 6, safety |-> 6, english_level |-> 4, beach |-> 3,
        nature |-> 3, culture |-> 2, food |-> 2, adventure |-> 2,
        nightlife |-> -3, crowds |-> -1, romance |-> 0 ],
    budget_backpacker |->
      [ avg_budget_per_day |-> -6, safety |-> 4, english_level |-> 3,
        culture |-> 3, food |-> 3, adventure |-> 3, nature |-> 2,
        crowds |-> -1, beach |-> 2, nightlife |-> 2, romance |-> 1,
        family |-> 1 ],
    hidden_gems |->
      [ crowds |-> -6, nature |-> 4, culture |-> 3, adventure |-> 3,
        safety |-> 3, food |-> 2, english_level |-> 1, beach |-> 2,
        nightlife |-> 0, romance |-> 3, family |-> 2 ],
    balanced |->
      [ safety |-> 4, culture |-> 3, nature |-> 3, food |-> 3,
        beach |-> 2, english_level |-> 2, adventure |-> 2,
        nightlife |-> 1, romance |-> 2, family |-> 2, crowds |-> -1 ] ]

---------------------------------------------------------------------------
(* Python built-ins used by the engine *)

\* F(a, ...) as Python calls a function: the arguments are evaluated once,
\* before the call, and the function works on their values
Call1(F(_), a) == CHOOSE v \in { F(x1) : x1 \in { a } } : TRUE
Call2(F(_, _), a, b) ==
  CHOOSE v \in { F(x1, x2) : x1 \in { a }, x2 \in { b } } : TRUE
Call3(F(_, _, _), a, b, c) ==
  CHOOSE v \in { F(x1, x2, x3) : x1 \in { a }, x2 \in { b }, x3 \in { c } } :
    TRUE
Call4(F(_, _, _, _), a, b, c, d) ==
  CHOOSE v \in { F(x1, x2, x3, x4) :
                   x1 \in { a }, x2 \in { b }, x3 \in { c }, x4 \in { d } } :
    TRUE
Call5(F(_, _, _, _, _), a, b, c, d, e) ==
  CHOOSE v \in { F(x1, x2, x3, x4, x5) :
                   x1 \in { a }, x2 \in { b }, x3 \in { c }, x4 \in { d },
                   x5 \in { e } } :
    TRUE
Call6(F(_, _, _, _, _, _), a, b, c, d, e, f) ==
  CHOOSE v \in { F(x1, x2, x3, x4, x5, x6) :
                   x1 \in { a }, x2 \in { b }, x3 \in { c }, x4 \in { d },
                   x5 \in { e }, x6 \in { f } } :
    TRUE

\* d.get(key) is not None
Has(d, key) == key \in DOMAIN d

\* d[key] = v on a copy of d
Put(d, key, v) == (key :> v) @@ d

\* abs(x)
Abs(x) == IF x < 0 THEN -x ELSE x

RECURSIVE Gcd(_, _)
Gcd(a, b) == IF b = 0 THEN a ELSE Call2(Gcd, b, a % b)

\* the rational n/d, d # 0, in lowest terms with a positive denominator
Reduce(n, d, g) == IF d < 0 THEN << (-n) \div g, (-d) \div g >>
                   ELSE << n \div g, d \div g >>
Rat(n, d) == Reduce(n, d, Gcd(Abs(n), Abs(d)))

RInt(n) == << n, 1 >>

\* round(n/d * 10^k) for an exact n/d with d > 0: the nearest integer, a tie
\* going to the even neighbour as Python's round() does
RoundHalfEven(n, d) ==
  LET q == n \div d
      r == n % d
  IN  IF 2 * r < d THEN q
      ELSE IF 2 * r > d THEN q + 1
      ELSE IF q % 2 = 0 THEN q ELSE q + 1

\* [f(x) for x in s if p(x)] helpers
RECURSIVE SelectSeqIds(_, _)
SelectSeqIds(s, used) ==
  IF s = << >> THEN << >>
  ELSE IF Head(s)["id"] \in used THEN Call2(SelectSeqIds, Tail(s), used)
       ELSE << Head(s) >> \o Call2(SelectSeqIds, Tail(s), used)

Range(s) == { s[i] : i \in DOMAIN s }
Ids(s) == { s[i]["id"] : i \in DOMAIN s }
RECURSIVE IdSeq(_)
IdSeq(s) ==
  IF s = << >> THEN << >>
  ELSE << Head(s)["id"] >> \o Call1(IdSeq, Tail(s))

---------------------------------------------------------------------------
(* Scoring algorithm: src/src/matching.py *)

\* faulty variant: an unknown style gets the weights of the balanced style
get_travel_style_weights_balanced(style) ==
  IF style \in DOMAIN TRAVEL_STYLES THEN TRAVEL_STYLES[style]
  ELSE TRAVEL_STYLES["balanced"]

get_travel_style_weights(style) ==
  IF style \in DOMAIN TRAVEL_STYLES THEN TRAVEL_STYLES[style]
  ELSE DEFAULT_WEIGHTS

\* value is a rational, min_val <= max_val are integers:
\* (value - min_val) / (max_val - min_val), not reduced
normalize_value(value, min_val, max_val) ==
  IF max_val = min_val THEN << 1, 2 >>
  ELSE << value[1] - min_val * value[2], value[2] * (max_val - min_val) >>

\* min(values), max(values) over the destinations that have the feature
FeatureValues(destinations, feature) ==
  { destinations[i][feature] :
      i \in { j \in DOMAIN destinations : Has(destinations[j], feature) } }

SetMin(S) == CHOOSE x \in S : \A y \in S : x <= y
SetMax(S) == CHOOSE x \in S : \A y \in S : x >= y

\* faulty variant: the pair is (max, min), and (5, 1) by default
RangesStepSwapped(ranges, feature, values) ==
  (feature :> (IF values # {} THEN << SetMax(values), SetMin(values) >>
               ELSE << 5, 1 >>)) @@ ranges

\* ranges[feature] = (min(values), max(values)) if values else (1, 5)
RangesStep(ranges, feature, values) ==
  (feature :> (IF values # {} THEN << SetMin(values), SetMax(values) >>
               ELSE << 1, 5 >>)) @@ ranges

\* the loop of calculate_feature_ranges over all_features[i..]
RECURSIVE RangesLoop(_, _, _)
RangesLoop(i, destinations, ranges) ==
  IF i > Len(all_features) THEN ranges
  ELSE Call3(RangesLoop, i + 1, destinations,
             Call3(RangesStep, ranges, all_features[i],
                   FeatureValues(destinations, all_features[i])))

calculate_feature_ranges(destinations) == RangesLoop(1, destinations, << >>)

RECURSIVE SumFeature(_, _)
SumFeature(ds, feature) ==
  IF ds = << >> THEN 0
  ELSE (IF Has(Head(ds), feature) THEN Head(ds)[feature] ELSE 0)
       + Call2(SumFeature, Tail(ds), feature)

\* faulty variant: an absent value counts as a zero
CountAll(ds, feature) == Len(ds)

CountFeature(ds, feature) ==
  Cardinality({ i \in DOMAIN ds : Has(ds[i], feature) })

\* if values: preference[feature] = sum(values) / len(values)
PreferenceStep(preference, feature, total, n) ==
  IF n > 0 THEN (feature :> Rat(total, n)) @@ preference ELSE preference

\* {} for no choice; else feature -> sum(values) / len(values) over the
\* chosen destinations that have the feature
RECURSIVE PreferenceLoop(_, _, _)
PreferenceLoop(i, chosen_, preference) ==
  IF i > Len(all_features) THEN preference
  ELSE Call3(PreferenceLoop, i + 1, chosen_,
             Call4(PreferenceStep, preference, all_features[i],
                   SumFeature(chosen_, all_features[i]),
                   CountFeature(chosen_, all_features[i])))

preference_vector(chosen_) ==
  IF chosen_ = << >> THEN << >> ELSE PreferenceLoop(1, chosen_, << >>)

\* similarity = 1.0 - abs(norm_dest - norm_pref), and 1.0 - similarity for a
\* negative weight
Similarity(norm_dest, norm_pref, weight) ==
  LET den == norm_dest[2] * norm_pref[2]
      diff == Abs(norm_dest[1] * norm_pref[2] - norm_pref[1] * norm_dest[2])
  IN  IF weight < 0 THEN Rat(den - (den - diff), den)
      ELSE Rat(den - diff, den)

\* total_weighted_similarity += similarity * abs_weight
\* total_weight += abs_weight
Accumulate(acc, similarity, abs_weight) ==
  << Rat(acc[1][1] * similarity[2] + similarity[1] * abs_weight * acc[1][2],
         acc[1][2] * similarity[2]),
     acc[2] + abs_weight >>

\* the body of the loop of calculate_match_score for a contributing feature
FeatureStep(acc, dest_value, pref_value, min_max, weight) ==
  Call3(Accumulate, acc,
        Call3(Similarity,
              normalize_value(RInt(dest_value), min_max[1], min_max[2]),
              normalize_value(pref_value, min_max[1], min_max[2]),
              weight),
        Abs(weight))

\* faulty variant: the weight of a feature that the destination or the
\* preference lacks is added to total_weight
RECURSIVE MatchLoopCountingAbsent(_, _, _, _, _, _)
MatchLoopCountingAbsent(i, destination, preference, feature_ranges, weights, acc) ==
  IF i > Len(all_features) THEN acc
  ELSE
    LET feature == all_features[i]
    IN  IF \/ feature \notin DOMAIN weights
           \/ weights[feature] = 0
        THEN Call6(MatchLoopCountingAbsent, i + 1, destination, preference,
                   feature_ranges, weights, acc)
        ELSE IF \/ feature \notin DOMAIN preference
                \/ ~Has(destination, feature)
        THEN Call6(MatchLoopCountingAbsent, i + 1, destination, preference,
                   feature_ranges, weights,
                   << acc[1], acc[2] + Abs(weights[feature]) >>)
        ELSE Call6(MatchLoopCountingAbsent, i + 1, destination, preference,
                   feature_ranges, weights,
                   FeatureStep(acc, destination[feature],
                               preference[feature],
                               IF feature \in DOMAIN feature_ranges
                               THEN feature_ranges[feature]
                               ELSE << 1, 5 >>,
                               weights[feature]))

\* the loop of calculate_match_score over all_features[i..]:
\* acc = << total_weighted_similarity (rational), total_weight (doubled) >>
RECURSIVE MatchLoop(_, _, _, _, _, _)
MatchLoop(i, destination, preference, feature_ranges, weights, acc) ==
  IF i > Len(all_features) THEN acc
  ELSE
    LET feature == all_features[i]
    IN  IF \/ feature \notin DOMAIN preference
           \/ ~Has(destination, feature)
           \/ feature \notin DOMAIN weights
           \/ weights[feature] = 0
        THEN Call6(MatchLoop, i + 1, destination, preference,
                   feature_ranges, weights, acc)
        ELSE Call6(MatchLoop, i + 1, destination, preference,
                   feature_ranges, weights,
                   FeatureStep(acc, destination[feature],
                               preference[feature],
                               IF feature \in DOMAIN feature_ranges
                               THEN feature_ranges[feature]
                               ELSE << 1, 5 >>,
                               weights[feature]))

\* faulty variant: no neutral score when no feature contributed
FinalScoreZero(acc) ==
  IF acc[2] = 0 THEN 0
  ELSE RoundHalfEven(1000 * acc[1][1], acc[1][2] * acc[2])

\* round(total_weighted_similarity / total_weight * 100, 1), in tenths
FinalScore(acc) ==
  IF acc[2] = 0 THEN 500
  ELSE RoundHalfEven(1000 * acc[1][1], acc[1][2] * acc[2])

calculate_match_score(destination, preference, feature_ranges, weights) ==
  IF DOMAIN preference = {} THEN 500
  ELSE Call1(FinalScore, MatchLoop(1, destination, preference,
                                   feature_ranges, weights,
                                   << RInt(0), 0 >>))

\* round(weather_score, 1): hundredths to tenths
RoundWeather(raw) == RoundHalfEven(raw, 10)

\* faulty variant: the weather part is added to the whole match score
calculate_combined_score_added(destination, match_score, weather_weight) ==
  LET weather_score == IF Has(destination, "weather_score")
                       THEN destination["weather_score"] ELSE 500
  IN  RoundHalfEven(match_score * 100 + weather_score * weather_weight, 100)

\* destination carries weather_score in tenths (the scored copy of
\* ranking_destinations); weather_weight in percent; all scores in tenths
calculate_combined_score(destination, match_score, weather_weight) ==
  LET weather_score == IF Has(destination, "weather_score")
                       THEN destination["weather_score"] ELSE 500
  IN  RoundHalfEven(match_score * (100 - weather_weight)
                      + weather_score * weather_weight, 100)

---------------------------------------------------------------------------
(* Main ranking function: src/src/matching.py *)

\* faulty variant: the weather score is blended in whatever use_weather is
ScoredAlwaysBlended(dest, match_score, weather_score, use_weather_, weather_weight) ==
  LET dest_copy == Put(Put(dest, "match_score", match_score),
                       "weather_score", weather_score)
  IN  Put(dest_copy, "combined_score",
          calculate_combined_score(dest_copy, match_score, weather_weight))

\* dest_copy with match_score, weather_score and combined_score
Scored(dest, match_score, weather_score, use_weather_, weather_weight) ==
  LET dest_copy == Put(Put(dest, "match_score", match_score),
                       "weather_score", weather_score)
  IN  Put(dest_copy, "combined_score",
          IF use_weather_
          THEN calculate_combined_score(dest_copy, match_score,
                                        weather_weight)
          ELSE match_score)

\* the body of the loop of ranking_destinations for one destination
ScoreDestination(dest, preference, feature_ranges, weights, use_weather_, weather_weight) ==
  Call5(Scored, dest,
        calculate_match_score(dest, preference, feature_ranges, weights),
        IF Has(dest, "weather_score")
        THEN RoundWeather(dest["weather_score"]) ELSE 500,
        use_weather_, weather_weight)

\* faulty variant: reverse=True forgotten
RECURSIVE InsertAscending(_, _)
InsertAscending(sorted, d) ==
  IF sorted = << >> THEN << d >>
  ELSE IF Head(sorted)["combined_score"] <= d["combined_score"]
       THEN << Head(sorted) >> \o Call2(InsertAscending, Tail(sorted), d)
       ELSE << d >> \o sorted

\* faulty variant: an item is placed in front of the items with an equal key
RECURSIVE InsertBeforeEqual(_, _)
InsertBeforeEqual(sorted, d) ==
  IF sorted = << >> THEN << d >>
  ELSE IF Head(sorted)["combined_score"] > d["combined_score"]
       THEN << Head(sorted) >> \o Call2(InsertBeforeEqual, Tail(sorted), d)
       ELSE << d >> \o sorted

\* list.sort(key=combined_score, reverse=True): a stable sort, so an item is
\* placed behind every item whose key is greater than or equal to its own
RECURSIVE InsertByScore(_, _)
InsertByScore(sorted, d) ==
  IF sorted = << >> THEN << d >>
  ELSE IF Head(sorted)["combined_score"] >= d["combined_score"]
       THEN << Head(sorted) >> \o Call2(InsertByScore, Tail(sorted), d)
       ELSE << d >> \o sorted

RECURSIVE SortByScore(_, _)
SortByScore(todo, sorted) ==
  IF todo = << >> THEN sorted
  ELSE Call2(SortByScore, Tail(todo), InsertByScore(sorted, Head(todo)))

\* scored_destinations: the loop of ranking_destinations
RECURSIVE ScoreLoop(_, _, _, _, _, _)
ScoreLoop(todo, preference, feature_ranges, weights, use_weather_, weather_weight) ==
  IF todo = << >> THEN << >>
  ELSE << ScoreDestination(Head(todo), preference, feature_ranges, weights,
                           use_weather_, weather_weight) >>
       \o Call6(ScoreLoop, Tail(todo), preference, feature_ranges, weights,
                use_weather_, weather_weight)

ranking_destinations(budget_matches_, chosen_, travel_style_, use_weather_, weather_weight) ==
  Call2(SortByScore,
        Call6(ScoreLoop, budget_matches_,
              preference_vector(chosen_),
              calculate_feature_ranges(budget_matches_),
              get_travel_style_weights(travel_style_),
              use_weather_, weather_weight),
        << >>)

\* faulty variant: the scores are written to the caller's destinations
PoolScoredInPlace(budget_matches_, chosen_, travel_style_, use_weather_, weather_weight) ==
  Call6(ScoreLoop, budget_matches_,
        preference_vector(chosen_),
        calculate_feature_ranges(budget_matches_),
        get_travel_style_weights(travel_style_),
        use_weather_, weather_weight)

\* the caller's budget_matches after the call: the loop writes the scores
\* to dest_copy = dest.copy() and sorts scored_destinations, a new list
PoolAfterRanking(budget_matches_, chosen_, travel_style_, use_weather_, weather_weight) ==
  budget_matches_

\* the caller's chosen after the call: preference_vector only reads it
ChosenAfterRanking(chosen_) == chosen_

---------------------------------------------------------------------------
(* The random module.  The generator is a hidden state seeded once; every   *)
(* draw reads it and advances it.  sample() and shuffle() are CPython's     *)
(* algorithms over that generator.                                          *)

NextRng(r) == (r + 1) % RngMod

\* _randbelow(n): a number in 0 .. n-1
RandBelow(n, r) == (7 * r) % n

\* lst with the items at (1-based) positions i and j exchanged
Swap(lst, i, j) == [lst EXCEPT ![i] = lst[j], ![j] = lst[i]]

\* random.sample(population, k), 0 <= k <= len(population); the remaining
\* draws from pool[0 .. n-i-1].  Returns << result, generator state >>
RECURSIVE SampleLoop(_, _, _, _, _)
SampleLoop(pool, i, k, r, result) ==
  IF i >= k THEN << result, r >>
  ELSE LET n == Len(pool)
           j == RandBelow(n - i, r)
       IN  Call5(SampleLoop, [pool EXCEPT ![j + 1] = pool[n - i]], i + 1, k,
                 NextRng(r), Append(result, pool[j + 1]))

random_sample(population, k, r) == SampleLoop(population, 0, k, r, << >>)

\* random.shuffle(x): for i in reversed(range(1, len(x))): swap x[i], x[j]
RECURSIVE ShuffleLoop(_, _, _)
ShuffleLoop(x, i, r) ==
  IF i < 1 THEN << x, r >>
  ELSE LET j == RandBelow(i + 1, r)
       IN  Call3(ShuffleLoop, Swap(x, i + 1, j + 1), i - 1, NextRng(r))

random_shuffle(x, r) == ShuffleLoop(x, Len(x) - 1, r)

---------------------------------------------------------------------------
(* The catalog the data layer serves: get_destinations_by_budget returns    *)
(* the destinations within the budget, cheapest first, so a pool is a       *)
(* prefix of the catalog in cost order.                                     *)

CatalogSafety == << 4, 1, 5, 4, 5, 4, 4, 5, 4, 5, 5,
                    4, 5, 4, 4, 5, 4, 5, 4, 5, 4 >>
CatalogCrowds == << 2, 3, 2, 5, 1, 3, 4, 2, 3, 3, 1,
                    5, 2, 4, 3, 2, 1, 4, 3, 5, 2 >>
CatalogBudget == << 30, 35, 40, 45, 50, 55, 60, 65, 70, 75, 80,
                    85, 90, 95, 100, 110, 120, 130, 150, 180, 200 >>
\* the weather provider's score per destination, in hundredths
CatalogWeather == << 6554, 5000, 10000, 7226, 0, 5000, 8846, 9999, 3350,
                     6554, 7226, 5000, 1276, 8846, 4004, 6554, 9114, 5000,
                     2500, 7226, 6554 >>

\* destination 7 has no crowds rating (NULL in the database)
CatalogRow(i) ==
  IF i = 7
  THEN [ id |-> i, safety |-> CatalogSafety[i],
         avg_budget_per_day |-> CatalogBudget[i] ]
  ELSE [ id |-> i, safety |-> CatalogSafety[i], crowds |-> CatalogCrowds[i],
         avg_budget_per_day |-> CatalogBudget[i] ]

\* the first n rows of the catalog
RECURSIVE CatalogPrefix(_)
CatalogPrefix(n) ==
  IF n = 0 THEN << >>
  ELSE Append(Call1(CatalogPrefix, n - 1), CatalogRow(n))

\* the start-page inputs of the modelled sessions: << pool size selected by
\* the budget, travel style, use_weather >>
Sessions ==
  { << 2, "balanced", TRUE >>, << 2, "budget_backpacker", FALSE >>,
    << 4, "balanced", FALSE >>, << 4, "hidden_gems", TRUE >>,
    << 11, "balanced", TRUE >>, << 11, "budget_backpacker", FALSE >>,
    << 14, "hidden_gems", FALSE >>, << 14, "budget_backpacker", TRUE >>,
    << 21, "balanced", TRUE >> }

\* enrich_destinations_with_weather / _with_forecast: every destination gets
\* a weather_score
RECURSIVE Enrich(_)
Enrich(matches) ==
  IF matches = << >> THEN << >>
  ELSE << Put(Head(matches), "weather_score",
              CatalogWeather[Head(matches)["id"]]) >>
       \o Call1(Enrich, Tail(matches))

---------------------------------------------------------------------------
(* Session state: src/streamlit_app.py *)

VARIABLES
  state,            \* st.session_state.state
  budget_matches,   \* st.session_state.budget_matches
  id_used,          \* st.session_state.id_used
  chosen,           \* st.session_state.chosen
  round,            \* st.session_state.round
  travel_style,     \* st.session_state.travel_style
  use_weather,      \* st.session_state.use_weather
  round_locations,  \* st.session_state["locations_round_<n>"], by n
  rng,              \* the state of the random module's generator
  locations,        \* what get_smart_round_locations returned last
  ranked,           \* what ranking_destinations returned last
  call              \* a direct call of an engine function and its result

vars == << state, budget_matches, id_used, chosen, round, travel_style,
           use_weather, round_locations, rng, locations, ranked, call >>

NoCall == [ fn |-> "none" ]

\* initialize_session_state: the defaults
Defaults ==
  /\ state = "Start"
  /\ budget_matches = << >>
  /\ id_used = << >>
  /\ chosen = << >>
  /\ round = 0
  /\ travel_style = "balanced"
  /\ use_weather = TRUE
  /\ round_locations = << >>
  /\ locations = << >>
  /\ ranked = << >>

Init ==
  /\ Defaults
  /\ rng \in 0 .. (RngMod - 1)
  /\ call = NoCall

\* reset_session_state followed by initialize_session_state on the rerun
reset_session_state ==
  /\ state' = "Start"
  /\ budget_matches' = << >>
  /\ id_used' = << >>
  /\ chosen' = << >>
  /\ round' = 0
  /\ travel_style' = "balanced"
  /\ use_weather' = TRUE
  /\ round_locations' = << >>
  /\ locations' = << >>
  /\ ranked' = << >>
  /\ UNCHANGED << rng, call >>

\* render_start_page, the Start Matching button, for the budgets, styles
\* and weather switches of a set of sessions
StartSession(sessions) ==
  /\ state = "Start"
  /\ \E s \in sessions :
       \E matches \in { CatalogPrefix(s[1]) } :
         /\ matches # << >>
         /\ budget_matches' = IF s[3] THEN Enrich(matches) ELSE matches
         /\ travel_style' = s[2]
         /\ use_weather' = s[3]
  /\ id_used' = << >>
  /\ chosen' = << >>
  /\ round' = 0
  /\ state' = "Matching"
  /\ UNCHANGED << round_locations, rng, locations, ranked, call >>

StartMatching == StartSession(Sessions)

---------------------------------------------------------------------------
(* Matching logic: src/streamlit_app.py *)

\* faulty variant: the destinations already shown are not left out
AvailableIgnoringUsed(matches, used) == matches

\* available = [d for d in budget_matches if d["id"] not in id_used]
Available(matches, used) == SelectSeqIds(matches, Range(used))

\* exploration: << locations, generator state >>
ExplorePick(available, r) ==
  IF Len(available) <= LOCATIONS_PER_ROUND THEN << available, r >>
  ELSE random_sample(available, LOCATIONS_PER_ROUND, r)

\* [d for d in ranked if d not in selected_top]
RECURSIVE Without(_, _)
Without(lst, gone) ==
  IF lst = << >> THEN << >>
  ELSE IF Head(lst) \in Range(gone) THEN Call2(Without, Tail(lst), gone)
       ELSE << Head(lst) >> \o Call2(Without, Tail(lst), gone)

Min2(a, b) == IF a < b THEN a ELSE b

\* selected_top = random.sample(top_pool, min(2, len(top_pool)))
ExploitTop(top_pool, r) ==
  random_sample(top_pool, Min2(2, Len(top_pool)), r)

\* if remaining: other = random.sample(remaining, 1)
ExploitOther(remaining, r) ==
  IF remaining # << >> THEN random_sample(remaining, 1, r)
  ELSE << << >>, r >>

\* locations = selected_top + other; random.shuffle(locations)
ExploitShuffle(selected_top, other) ==
  random_shuffle(selected_top \o other[1], other[2])

\* the selection given top = << selected_top, generator state >>
ExploitRest(ranking, top) ==
  Call2(ExploitShuffle, top[1],
        Call2(ExploitOther, Without(ranking, top[1]), top[2]))

\* exploitation over the ranking of the available destinations:
\* << locations, generator state >>
ExploitPick(ranking, r) ==
  IF Len(ranking) <= LOCATIONS_PER_ROUND THEN << ranking, r >>
  ELSE Call2(ExploitRest, ranking,
             Call2(ExploitTop, SubSeq(ranking, 1, Min2(10, Len(ranking))),
                   r))

\* st.session_state[round_key] = locations
Store(cache, key, value) == (key :> value) @@ cache

\* the part of get_smart_round_locations behind the round_key check: a new
\* selection for the round
SelectLocations ==
  \E current_round \in { round },
     available \in { Available(budget_matches, id_used) } :
    IF available = << >>
    THEN /\ locations' = << >>
         /\ UNCHANGED << round_locations, rng, ranked >>
    ELSE IF current_round < 3 \/ Len(chosen) < 3
    THEN \E pick \in { ExplorePick(available, rng) } :
           /\ locations' = pick[1]
           /\ rng' = pick[2]
           /\ round_locations' =
                Store(round_locations, current_round, pick[1])
           /\ UNCHANGED ranked
    ELSE \E ranking \in { ranking_destinations(available, chosen,
                             travel_style, use_weather, WEATHER_WEIGHT) } :
           \E pick \in { ExploitPick(ranking, rng) } :
             /\ locations' = pick[1]
             /\ rng' = pick[2]
             /\ round_locations' =
                  Store(round_locations, current_round, pick[1])
             /\ ranked' = ranking

\* faulty variant: the round's stored selection is not looked up
get_smart_round_locations_uncached == SelectLocations

get_smart_round_locations ==
  IF /\ round \in DOMAIN round_locations
     /\ round_locations[round] # << >>
  THEN /\ locations' = round_locations[round]
       /\ UNCHANGED << round_locations, rng, ranked >>
  ELSE SelectLocations

\* picked = next((loc for loc in locations if loc["id"] == choice_id), None)
Picked(choice_id, locs) ==
  locs[CHOOSE i \in DOMAIN locs :
         /\ locs[i]["id"] = choice_id
         /\ \A j \in DOMAIN locs : locs[j]["id"] = choice_id => i <= j]

\* faulty variant: a choice that is not among the locations costs a round
process_selection_counting_rejected(choice_id, locs) ==
  IF choice_id \notin Ids(locs)
  THEN /\ round' = round + 1
       /\ state' = IF round + 1 >= ROUNDS THEN "Results" ELSE "Matching"
       /\ UNCHANGED << chosen, id_used >>
  ELSE /\ chosen' = Append(chosen, Picked(choice_id, locs))
       /\ id_used' = id_used \o IdSeq(locs)
       /\ round' = round + 1
       /\ state' = IF round + 1 >= ROUNDS THEN "Results" ELSE "Matching"

\* faulty variant: only the picked id is recorded as used
process_selection_picked_only(choice_id, locs) ==
  IF choice_id \notin Ids(locs)
  THEN UNCHANGED << chosen, id_used, round, state >>
  ELSE /\ chosen' = Append(chosen, Picked(choice_id, locs))
       /\ id_used' = Append(id_used, choice_id)
       /\ round' = round + 1
       /\ state' = IF round + 1 >= ROUNDS THEN "Results" ELSE "Matching"

\* faulty variant: the results are reached one round late
process_selection_late(choice_id, locs) ==
  IF choice_id \notin Ids(locs)
  THEN UNCHANGED << chosen, id_used, round, state >>
  ELSE /\ chosen' = Append(chosen, Picked(choice_id, locs))
       /\ id_used' = id_used \o IdSeq(locs)
       /\ round' = round + 1
       /\ state' = IF round + 1 > ROUNDS THEN "Results" ELSE "Matching"

\* faulty variant: the round advances without the choice being recorded
process_selection_unrecorded(choice_id, locs) ==
  IF choice_id \notin Ids(locs)
  THEN UNCHANGED << chosen, id_used, round, state >>
  ELSE /\ chosen' = chosen
       /\ id_used' = id_used \o IdSeq(locs)
       /\ round' = round + 1
       /\ state' = IF round + 1 >= ROUNDS THEN "Results" ELSE "Matching"

process_selection(choice_id, locs) ==
  IF choice_id \notin Ids(locs)
  THEN UNCHANGED << chosen, id_used, round, state >>
  ELSE /\ chosen' = Append(chosen, Picked(choice_id, locs))
       /\ id_used' = id_used \o IdSeq(locs)
       /\ round' = round + 1
       /\ state' = IF round + 1 >= ROUNDS THEN "Results" ELSE "Matching"

\* faulty variant: an empty selection leaves the session on the matching page
ShowRoundWithoutExit ==
  /\ state = "Matching"
  /\ get_smart_round_locations
  /\ state' = state
  /\ UNCHANGED << budget_matches, id_used, chosen, round, travel_style,
                  use_weather, call >>

\* render_matching_page without a confirmed choice: the round's destinations
\* are shown, or the session proceeds to the results when there are none
ShowRound ==
  /\ state = "Matching"
  /\ get_smart_round_locations
  /\ state' = IF locations' = << >> THEN "Results" ELSE state
  /\ UNCHANGED << budget_matches, id_used, chosen, round, travel_style,
                  use_weather, call >>

\* render_matching_page on the rerun of the Confirm button: the choice is one
\* of the ids the radio of this round offered
ConfirmChoice ==
  /\ state = "Matching"
  /\ round \in DOMAIN round_locations
  /\ \E choice \in Ids(round_locations[round]) :
       /\ get_smart_round_locations
       /\ process_selection(choice, locations')
  /\ UNCHANGED << budget_matches, travel_style, use_weather, call >>

\* render_results_page
ShowResults ==
  /\ state = "Results"
  /\ ranked' = ranking_destinations(budget_matches, chosen, travel_style,
                                    use_weather, WEATHER_WEIGHT)
  /\ UNCHANGED << state, budget_matches, id_used, chosen, round,
                  travel_style, use_weather, round_locations, rng,
                  locations, call >>

\* the Start Over buttons of the matching and results pages
StartOver ==
  /\ state \in { "Matching", "Results" }
  /\ reset_session_state

Next ==
  \/ StartMatching
  \/ ShowRound
  \/ ConfirmChoice
  \/ ShowResults
  \/ StartOver

Spec == Init /\ [][Next]_vars

\* The sessions of a user who goes on: the page is rendered after every
\* rerun, and the user confirms a choice whenever destinations are shown
\* instead of starting over.
LiveSessions ==
  { << 2, "balanced", TRUE >>,
    << 4, "hidden_gems", TRUE >>,
    << 19, "budget_backpacker", FALSE >> }

StartMatchingLive == StartSession(LiveSessions)

NextLive ==
  \/ StartMatchingLive
  \/ ShowRound
  \/ ConfirmChoice
  \/ ShowResults

LiveSpec ==
  /\ Init
  /\ [][NextLive]_vars
  /\ WF_vars(ShowRound)
  /\ WF_vars(ConfirmChoice)

---------------------------------------------------------------------------
(* Direct calls of calculate_match_score: the candidates of one scoring    *)
(* pass, as the loop of ranking_destinations makes it, on inputs drawn     *)
(* from bounded sets.                                                       *)

BudgetOnly(i, b) == [ id |-> i, avg_budget_per_day |-> b ]

ScoreDests ==
  { BudgetOnly(1, 50), BudgetOnly(2, 100), BudgetOnly(3, 200),
    [ id |-> 4, safety |-> 1 ], [ id |-> 5, safety |-> 5 ],
    [ id |-> 6, safety |-> 3, avg_budget_per_day |-> 80 ],
    [ id |-> 7 ] }

ScorePrefs ==
  { << >>,
    [ avg_budget_per_day |-> << 50, 1 >> ],
    [ safety |-> << 3, 1 >> ],
    [ safety |-> << 7, 2 >>, avg_budget_per_day |-> << 100, 1 >> ],
    [ culture |-> << 4, 1 >> ] }

\* the ranges of the empty pool (every feature 1..5) and of three pools
ScoreRanges ==
  { calculate_feature_ranges(<< >>),
    calculate_feature_ranges(<< BudgetOnly(1, 50), BudgetOnly(3, 200) >>),
    calculate_feature_ranges(<< [ id |-> 6, safety |-> 3,
                                  avg_budget_per_day |-> 30 ],
                                [ id |-> 5, safety |-> 5,
                                  avg_budget_per_day |-> 250 ] >>),
    calculate_feature_ranges(<< [ id |-> 6, safety |-> 3,
                                  avg_budget_per_day |-> 100 ] >>) }

ScoreWeights ==
  { DEFAULT_WEIGHTS, TRAVEL_STYLES["budget_backpacker"],
    [ avg_budget_per_day |-> -6 ],
    [ safety |-> 0, avg_budget_per_day |-> 0 ] }

RECURSIVE ScoreAll(_, _, _, _)
ScoreAll(candidates, preference, feature_ranges, weights) ==
  IF candidates = << >> THEN << >>
  ELSE << calculate_match_score(Head(candidates), preference, feature_ranges,
                                weights) >>
       \o Call4(ScoreAll, Tail(candidates), preference, feature_ranges,
                weights)

InitScore ==
  /\ Defaults
  /\ rng = 0
  /\ \E a \in ScoreDests, b \in ScoreDests, p \in ScorePrefs,
        r \in ScoreRanges, w \in ScoreWeights :
       /\ a # b
       /\ call = [ fn |-> "calculate_match_score", candidates |-> << a, b >>,
                   preference |-> p, feature_ranges |-> r, weights |-> w,
                   done |-> FALSE, result |-> << >> ]

CallScore ==
  /\ call.fn = "calculate_match_score"
  /\ ~call.done
  /\ call' = [ call EXCEPT
                 !.done = TRUE,
                 !.result = ScoreAll(call.candidates, call.preference,
                                     call.feature_ranges, call.weights) ]
  /\ UNCHANGED << state, budget_matches, id_used, chosen, round,
                  travel_style, use_weather, round_locations, rng,
                  locations, ranked >>

NextScore == CallScore

SpecScore == InitScore /\ [][NextScore]_vars

---------------------------------------------------------------------------
(* Direct calls of ranking_destinations on inputs drawn from bounded sets. *)

\* the pool of the budget scenario: budgets only
BudgetPool ==
  << BudgetOnly(1, 50), BudgetOnly(2, 80), BudgetOnly(3, 100),
     BudgetOnly(4, 120), BudgetOnly(5, 200) >>

\* a pool with equal destinations under different ids, and equal weather
TiePool ==
  << [ id |-> 1, safety |-> 3, crowds |-> 2, weather_score |-> 6554 ],
     [ id |-> 2, safety |-> 5, crowds |-> 2, weather_score |-> 6554 ],
     [ id |-> 3, safety |-> 3, crowds |-> 2, weather_score |-> 6554 ],
     [ id |-> 4, safety |-> 5, crowds |-> 2 ],
     [ id |-> 5, safety |-> 3, crowds |-> 2, weather_score |-> 6546 ],
     [ id |-> 6, safety |-> 4, crowds |-> 4, weather_score |-> 9999 ] >>

RankPools ==
  { << >>, BudgetPool, TiePool, CatalogPrefix(4), Enrich(CatalogPrefix(5)) }

RankChosen ==
  { << >>, << BudgetOnly(1, 50) >>, << BudgetOnly(3, 100) >>,
    << CatalogRow(2) >>, << CatalogRow(2), CatalogRow(5) >>,
    << [ id |-> 2, safety |-> 5, crowds |-> 2, weather_score |-> 6554 ] >> }

RankStyles == { "balanced", "budget_backpacker", "luxury" }

\* weather_weight in percent
RankWeatherWeights == { 0, 20, 100 }

InitRank ==
  /\ Defaults
  /\ rng = 0
  /\ \E pool \in RankPools, ch \in RankChosen, style \in RankStyles,
        weather \in BOOLEAN, ww \in RankWeatherWeights :
       call = [ fn |-> "ranking_destinations", budget_matches |-> pool,
                chosen |-> ch, travel_style |-> style,
                use_weather |-> weather, weather_weight |-> ww,
                calls |-> 0, result |-> << >>, previous |-> << >>,
                passed |-> [ budget_matches |-> pool, chosen |-> ch ] ]

\* a call, or a repeated call on the same lists; budget_matches and chosen
\* are the caller's lists, passed is what they were before the first call
CallRank ==
  /\ call.fn = "ranking_destinations"
  /\ call.calls < 2
  /\ call' = [ call EXCEPT
                 !.calls = call.calls + 1,
                 !.previous = call.result,
                 !.result = ranking_destinations(call.budget_matches,
                              call.chosen, call.travel_style,
                              call.use_weather, call.weather_weight),
                 !.budget_matches = PoolAfterRanking(call.budget_matches,
                              call.chosen, call.travel_style,
                              call.use_weather, call.weather_weight),
                 !.chosen = ChosenAfterRanking(call.chosen) ]
  /\ UNCHANGED << state, budget_matches, id_used, chosen, round,
                  travel_style, use_weather, round_locations, rng,
                  locations, ranked >>

NextRank == CallRank

SpecRank == InitRank /\ [][NextRank]_vars

---------------------------------------------------------------------------
(* Similar destinations: src/src/matching.py *)

\* the features find_similar_destinations compares
similar_features ==
  << "beach", "culture", "nature", "food", "nightlife", "adventure",
     "safety", "romance", "family", "crowds" >>

\* faulty variant: no destination is taken for the target
NeverSameId(dest, target) == FALSE

\* dest.get('id') == target.get('id'), None for a missing id
SameId(dest, target) ==
  IF Has(dest, "id") /\ Has(target, "id") THEN dest["id"] = target["id"]
  ELSE ~Has(dest, "id") /\ ~Has(target, "id")

\* the inner loop of find_similar_destinations over similar_features[i..]:
\* acc = << 4 * similarity_sum, feature_count >>
RECURSIVE SimilarityLoop(_, _, _, _)
SimilarityLoop(i, target, dest, acc) ==
  IF i > Len(similar_features) THEN acc
  ELSE IF Has(target, similar_features[i]) /\ Has(dest, similar_features[i])
  THEN Call4(SimilarityLoop, i + 1, target, dest,
             << acc[1] + 4 - Abs(target[similar_features[i]]
                                  - dest[similar_features[i]]),
                acc[2] + 1 >>)
  ELSE Call4(SimilarityLoop, i + 1, target, dest, acc)

\* round((similarity_sum / feature_count) * 100, 1), in tenths
SimilarityScore(acc) == RoundHalfEven(250 * acc[1], acc[2])

\* similarities: the loop of find_similar_destinations over the destinations
RECURSIVE SimilaritiesLoop(_, _)
SimilaritiesLoop(target, todo) ==
  IF todo = << >> THEN << >>
  ELSE IF SameId(Head(todo), target)
  THEN Call2(SimilaritiesLoop, target, Tail(todo))
  ELSE IF SimilarityLoop(1, target, Head(todo), << 0, 0 >>)[2] > 0
  THEN << Put(Head(todo), "similarity_score",
              Call1(SimilarityScore,
                    SimilarityLoop(1, target, Head(todo), << 0, 0 >>))) >>
       \o Call2(SimilaritiesLoop, target, Tail(todo))
  ELSE Call2(SimilaritiesLoop, target, Tail(todo))

\* faulty variant: an item is placed in front of the items with an equal key
RECURSIVE InsertBySimilarityBeforeEqual(_, _)
InsertBySimilarityBeforeEqual(sorted, d) ==
  IF sorted = << >> THEN << d >>
  ELSE IF Head(sorted)["similarity_score"] > d["similarity_score"]
       THEN << Head(sorted) >>
            \o Call2(InsertBySimilarityBeforeEqual, Tail(sorted), d)
       ELSE << d >> \o sorted

\* similarities.sort(key=similarity_score, reverse=True): a stable sort
RECURSIVE InsertBySimilarity(_, _)
InsertBySimilarity(sorted, d) ==
  IF sorted = << >> THEN << d >>
  ELSE IF Head(sorted)["similarity_score"] >= d["similarity_score"]
       THEN << Head(sorted) >> \o Call2(InsertBySimilarity, Tail(sorted), d)
       ELSE << d >> \o sorted

RECURSIVE SortBySimilarity(_, _)
SortBySimilarity(todo, sorted) ==
  IF todo = << >> THEN sorted
  ELSE Call2(SortBySimilarity, Tail(todo),
             InsertBySimilarity(sorted, Head(todo)))

\* lst[:n]: the first n items, and for a negative n all but the last -n
SliceTo(lst, n) ==
  IF n >= 0 THEN SubSeq(lst, 1, Min2(n, Len(lst)))
  ELSE SubSeq(lst, 1, Len(lst) + n)

find_similar_destinations(target, all_destinations, num_similar) ==
  Call2(SliceTo,
        Call2(SortBySimilarity, SimilaritiesLoop(target, all_destinations),
              << >>),
        num_similar)

---------------------------------------------------------------------------
(* Random round selection: src/src/matching.py *)

\* faulty variant: the sample is drawn without the test of the length
test_locations_unguarded(budget_matches_, id_used_, x, r) ==
  IF \E i \in DOMAIN budget_matches_ : ~Has(budget_matches_[i], "id")
  THEN [ raised |-> "KeyError", value |-> << >>, rng |-> r ]
  ELSE IF x < 0 \/ x > Len(Available(budget_matches_, id_used_))
  THEN [ raised |-> "ValueError", value |-> << >>, rng |-> r ]
  ELSE [ raised |-> "",
         value |-> random_sample(Available(budget_matches_, id_used_),
                                 x, r)[1],
         rng |-> random_sample(Available(budget_matches_, id_used_),
                               x, r)[2] ]

\* test_locations(budget_matches, id_used, x) with the generator in state r:
\* what it raises or returns, and the generator state afterwards
test_locations(budget_matches_, id_used_, x, r) ==
  IF \E i \in DOMAIN budget_matches_ : ~Has(budget_matches_[i], "id")
  THEN [ raised |-> "KeyError", value |-> << >>, rng |-> r ]
  ELSE IF Len(Available(budget_matches_, id_used_)) <= x
  THEN [ raised |-> "", value |-> Available(budget_matches_, id_used_),
         rng |-> r ]
  ELSE IF x < 0
  THEN [ raised |-> "ValueError", value |-> << >>, rng |-> r ]
  ELSE [ raised |-> "",
         value |-> random_sample(Available(budget_matches_, id_used_),
                                 x, r)[1],
         rng |-> random_sample(Available(budget_matches_, id_used_),
                               x, r)[2] ]

---------------------------------------------------------------------------
(* Direct calls of find_similar_destinations, test_locations and
   ranking_destinations, on inputs that include negative counts and
   destinations without an id. *)

SimilarTargets ==
  { [ id |-> 1, beach |-> 5, culture |-> 2, crowds |-> 3 ],
    [ id |-> 3, beach |-> 1, culture |-> 4 ],
    [ beach |-> 4, culture |-> 4, safety |-> 5 ],
    [ id |-> 9, nightlife |-> 3 ] }

\* a pool that holds the destination with id 1 twice and equal similarities
SimilarPool ==
  << [ id |-> 1, beach |-> 5, culture |-> 2, crowds |-> 3 ],
     [ id |-> 2, beach |-> 4, culture |-> 2, crowds |-> 1 ],
     [ id |-> 3, beach |-> 1, culture |-> 4 ],
     [ id |-> 1, beach |-> 2, culture |-> 2, crowds |-> 3 ],
     [ id |-> 4, beach |-> 4, culture |-> 2, crowds |-> 1 ],
     [ id |-> 5, avg_budget_per_day |-> 80 ],
     [ id |-> 6, beach |-> 5, nightlife |-> 3 ] >>

\* a pool with destinations that have no id
NoIdPool ==
  << [ beach |-> 3, culture |-> 3, safety |-> 4 ],
     [ id |-> 2, beach |-> 4, culture |-> 2, crowds |-> 1 ],
     [ beach |-> 5, culture |-> 1, crowds |-> 2 ],
     [ id |-> 3, beach |-> 1, culture |-> 4, safety |-> 2 ] >>

SimilarPools ==
  { << >>, SimilarPool, NoIdPool, SubSeq(SimilarPool, 1, 1),
    SubSeq(SimilarPool, 2, 5) }

SimilarCounts == -2 .. 4

LocationPools == { << >>, SimilarPool, NoIdPool, SubSeq(SimilarPool, 2, 5) }

LocationUsed == { << >>, << 2 >>, << 2, 3, 5 >>, << 1, 2, 3, 4, 5, 6 >> }

LocationCounts == -1 .. 3

InitCalls ==
  /\ Defaults
  /\ \/ /\ rng = 0
        /\ \E t \in SimilarTargets, pool \in SimilarPools,
              k \in SimilarCounts :
             call = [ fn |-> "find_similar_destinations", target |-> t,
                      all_destinations |-> pool, num_similar |-> k,
                      done |-> FALSE, raised |-> "", result |-> << >> ]
     \/ /\ rng \in 0 .. RngMod - 1
        /\ \E pool \in LocationPools, used \in LocationUsed,
              x \in LocationCounts :
             call = [ fn |-> "test_locations", budget_matches |-> pool,
                      id_used |-> used, x |-> x,
                      done |-> FALSE, raised |-> "", result |-> << >> ]
     \/ /\ rng = 0
        /\ \E pool \in { << >>, NoIdPool, SubSeq(NoIdPool, 1, 1),
                          SimilarPool, TiePool },
              ch \in { << >>, SubSeq(NoIdPool, 3, 3) },
              style \in RankStyles, weather \in BOOLEAN :
             call = [ fn |-> "ranking_destinations", budget_matches |-> pool,
                      chosen |-> ch, travel_style |-> style,
                      use_weather |-> weather,
                      weather_weight |-> WEATHER_WEIGHT,
                      calls |-> 0, result |-> << >>, previous |-> << >>,
                      passed |-> [ budget_matches |-> pool,
                                   chosen |-> ch ] ]

CallSimilar ==
  /\ call.fn = "find_similar_destinations"
  /\ ~call.done
  /\ call' = [ call EXCEPT
                 !.done = TRUE,
                 !.result = find_similar_destinations(call.target,
                              call.all_destinations, call.num_similar) ]
  /\ UNCHANGED << state, budget_matches, id_used, chosen, round,
                  travel_style, use_weather, round_locations, rng,
                  locations, ranked >>

CallTestLocations ==
  /\ call.fn = "test_locations"
  /\ ~call.done
  /\ \E out \in { test_locations(call.budget_matches, call.id_used,
                                 call.x, rng) } :
       /\ call' = [ call EXCEPT !.done = TRUE, !.raised = out.raised,
                                !.result = out.value ]
       /\ rng' = out.rng
  /\ UNCHANGED << state, budget_matches, id_used, chosen, round,
                  travel_style, use_weather, round_locations,
                  locations, ranked >>

NextCalls == CallSimilar \/ CallTestLocations \/ CallRank

SpecCalls == InitCalls /\ [][NextCalls]_vars

---------------------------------------------------------------------------
(* Budget filter: src/src/data.py, src/src/matching.py, and the Start
   Matching button of src/streamlit_app.py. Money is in CHF. *)

MAX_DESTINATIONS == 50

\* dest.get(key) or 0
OrZero(dest, key) == IF Has(dest, key) THEN dest[key] ELSE 0

FlightTotal(dest, num_travelers) == OrZero(dest, "flight_price") * num_travelers

DailyTotal(dest, trip_days, num_travelers) ==
  OrZero(dest, "avg_budget_per_day") * trip_days * num_travelers

TotalCost(dest, trip_days, num_travelers) ==
  FlightTotal(dest, num_travelers) + DailyTotal(dest, trip_days, num_travelers)

\* dest_copy with the cost fields
WithCosts(dest, total_budget, trip_days, num_travelers) ==
  Put(Put(Put(Put(Put(dest,
    "total_trip_cost", TotalCost(dest, trip_days, num_travelers)),
    "flight_total", FlightTotal(dest, num_travelers)),
    "daily_total", DailyTotal(dest, trip_days, num_travelers)),
    "num_travelers", num_travelers),
    "budget_remaining",
    total_budget - TotalCost(dest, trip_days, num_travelers))

\* the loop of get_destinations_by_budget: total_cost <= total_budget * 1.2
RECURSIVE BudgetLoop(_, _, _, _)
BudgetLoop(todo, total_budget, trip_days, num_travelers) ==
  IF todo = << >> THEN << >>
  ELSE IF TotalCost(Head(todo), trip_days, num_travelers) * 10
            <= total_budget * 12
  THEN << WithCosts(Head(todo), total_budget, trip_days, num_travelers) >>
       \o Call4(BudgetLoop, Tail(todo), total_budget, trip_days,
                num_travelers)
  ELSE Call4(BudgetLoop, Tail(todo), total_budget, trip_days, num_travelers)

\* matches.sort(key=total_trip_cost): a stable ascending sort
RECURSIVE InsertByCost(_, _)
InsertByCost(sorted, d) ==
  IF sorted = << >> THEN << d >>
  ELSE IF Head(sorted)["total_trip_cost"] <= d["total_trip_cost"]
       THEN << Head(sorted) >> \o Call2(InsertByCost, Tail(sorted), d)
       ELSE << d >> \o sorted

RECURSIVE SortByCost(_, _)
SortByCost(todo, sorted) ==
  IF todo = << >> THEN sorted
  ELSE Call2(SortByCost, Tail(todo), InsertByCost(sorted, Head(todo)))

\* get_destinations_by_budget, with the rows of the database as
\* all_destinations
get_destinations_by_budget(all_destinations, total_budget, trip_days, num_travelers) ==
  Call2(SortByCost,
        Call4(BudgetLoop, all_destinations, total_budget, trip_days,
              num_travelers),
        << >>)

\* filter_by_budget: all destinations when nothing is within the budget
filter_by_budget(all_destinations, total_budget, trip_days, num_travelers) ==
  IF get_destinations_by_budget(all_destinations, total_budget, trip_days,
                                num_travelers) = << >>
  THEN all_destinations
  ELSE get_destinations_by_budget(all_destinations, total_budget, trip_days,
                                  num_travelers)

\* a row of the destinations table
Row(i, flight_price, avg_budget_per_day) ==
  [ id |-> i, flight_price |-> flight_price,
    avg_budget_per_day |-> avg_budget_per_day, safety |-> CatalogSafety[i] ]

\* databases: the rows are in the order of their ids, not of their costs; a
\* price the database does not have is NULL
Databases ==
  { << >>,
    << Row(1, 650, 90), Row(2, 120, 150), Row(3, 900, 40), Row(4, 80, 60),
       [ id |-> 5, avg_budget_per_day |-> 110, safety |-> 5 ],
       Row(6, 300, 200) >>,
    << Row(1, 1400, 180), Row(2, 700, 220), [ id |-> 3, flight_price |-> 950 ],
       Row(4, 500, 130) >> }

\* inputs of the start page, within MIN_BUDGET..MAX_BUDGET, MIN_DAYS..MAX_DAYS
\* and MIN_TRAVELERS..MAX_TRAVELERS
StartBudgets == { 100, 600, 3000, 15000 }
StartDays == { 1, 7, 60 }
StartTravelers == { 1, 2, 10 }

InitBudget ==
  /\ Defaults
  /\ rng = 0
  /\ \E db \in Databases, b \in StartBudgets, days \in StartDays,
        n \in StartTravelers, weather \in BOOLEAN :
       call = [ fn |-> "render_start_page", all_destinations |-> db,
                total_budget |-> b, trip_days |-> days, num_travelers |-> n,
                use_weather |-> weather, error |-> FALSE ]

\* the Start Matching button of render_start_page
StartPage ==
  /\ call.fn = "render_start_page"
  /\ state = "Start"
  /\ ~call.error
  /\ \E matches \in { filter_by_budget(call.all_destinations,
                        call.total_budget, call.trip_days,
                        call.num_travelers) } :
       IF matches = << >>
       THEN /\ call' = [ call EXCEPT !.error = TRUE ]
            /\ UNCHANGED << state, budget_matches, id_used, chosen, round,
                            use_weather >>
       ELSE /\ budget_matches' =
                 IF call.use_weather
                 THEN Enrich(SliceTo(matches, MAX_DESTINATIONS))
                 ELSE SliceTo(matches, MAX_DESTINATIONS)
            /\ use_weather' = call.use_weather
            /\ id_used' = << >>
            /\ chosen' = << >>
            /\ round' = 0
            /\ state' = "Matching"
            /\ UNCHANGED call
  /\ UNCHANGED << travel_style, round_locations, rng, locations, ranked >>

NextBudget == StartPage

SpecBudget == InitBudget /\ [][NextBudget]_vars

---------------------------------------------------------------------------
(* Weather score: src/src/weather_matching.py. Temperatures are in tenths
   of a degree, preferred ranges in degrees, scores in hundredths. An answer
   of the weather service is a record with the status code and, for status
   200, the current_weather object of the body; a request that timed out or
   failed has no status code. A dictionary value of None is a field the
   record does not have. *)

\* get_weather_for_destination, given the answer of the service
get_weather_for_destination(response) ==
  IF ~Has(response, "status_code") THEN [ success |-> FALSE ]
  ELSE IF response["status_code"] = 200
  THEN IF Has(response["current_weather"], "temperature")
       THEN [ success |-> TRUE,
              temperature |-> response["current_weather"]["temperature"] ]
       ELSE [ success |-> TRUE ]
  ELSE [ success |-> FALSE ]

\* 100.0 - (diff / 5) * 15, not below 0.0
TemperatureScore(temp, min_pref, max_pref) ==
  IF 10 * min_pref <= temp /\ temp <= 10 * max_pref THEN 10000
  ELSE IF temp < 10 * min_pref
  THEN IF 30 * (10 * min_pref - temp) > 10000 THEN 0
       ELSE 10000 - 30 * (10 * min_pref - temp)
  ELSE IF 30 * (temp - 10 * max_pref) > 10000 THEN 0
       ELSE 10000 - 30 * (temp - 10 * max_pref)

\* calculate_weather_score, given the answer of the service to its request:
\* what it raises or returns. The comparison of None with the preferred
\* range is a TypeError.
calculate_weather_score(destination, preferred_temp_range, response) ==
  IF ~Has(destination, "latitude") \/ ~Has(destination, "longitude")
  THEN [ raised |-> "", value |-> 5000 ]
  ELSE IF ~get_weather_for_destination(response)["success"]
  THEN [ raised |-> "", value |-> 5000 ]
  ELSE IF ~Has(get_weather_for_destination(response), "temperature")
  THEN [ raised |-> "TypeError", value |-> 0 ]
  ELSE [ raised |-> "",
         value |-> TemperatureScore(
                     get_weather_for_destination(response)["temperature"],
                     preferred_temp_range[1], preferred_temp_range[2]) ]

\* the body of the loop of enrich_destinations_with_weather for a destination
\* that is not in the cache: the weather_score it attaches, given the answers
\* of the service to the request of the loop and to the request of
\* calculate_weather_score
EnrichScore(dest, preferred_temp, responses) ==
  IF Has(dest, "latitude") /\ Has(dest, "longitude")
     /\ dest["latitude"] # 0 /\ dest["longitude"] # 0
  THEN IF get_weather_for_destination(responses[1])["success"]
       THEN calculate_weather_score(dest, preferred_temp, responses[2])
       ELSE [ raised |-> "", value |-> 5000 ]
  ELSE [ raised |-> "", value |-> 5000 ]

---------------------------------------------------------------------------
(* Direct calls of calculate_weather_score and of the loop body of
   enrich_destinations_with_weather. *)

WeatherDests ==
  { [ id |-> 1, latitude |-> 41, longitude |-> 2 ],
    [ id |-> 2, latitude |-> 0, longitude |-> 32 ],
    [ id |-> 3, longitude |-> 8 ],
    [ id |-> 4, latitude |-> 47 ],
    [ id |-> 5 ] }

\* preferred ranges of the sliders: -10..30 and 10..45 degrees
WeatherRanges == { << 20, 28 >>, << -10, 10 >>, << 30, 45 >>, << 30, 10 >> }

Answer(temp) ==
  [ status_code |-> 200, current_weather |-> [ temperature |-> temp ] ]

Responses ==
  { [ error |-> "Timeout" ], [ status_code |-> 500 ],
    [ status_code |-> 200, current_weather |-> [ time |-> 0 ] ],
    Answer(-420), Answer(-34), Answer(100), Answer(235), Answer(281),
    Answer(300), Answer(452), Answer(790) }

InitWeather ==
  /\ Defaults
  /\ rng = 0
  /\ \E d \in WeatherDests, p \in WeatherRanges, r \in Responses :
       \/ call = [ fn |-> "calculate_weather_score", destination |-> d,
                   preferred_temp_range |-> p, responses |-> << r >>,
                   done |-> FALSE, raised |-> "", result |-> 0 ]
       \/ \E r2 \in Responses :
            call = [ fn |-> "enrich_destinations_with_weather",
                     destination |-> d, preferred_temp_range |-> p,
                     responses |-> << r, r2 >>,
                     done |-> FALSE, raised |-> "", result |-> 0 ]

CallWeatherScore ==
  /\ call.fn = "calculate_weather_score"
  /\ ~call.done
  /\ \E out \in { calculate_weather_score(call.destination,
                    call.preferred_temp_range, call.responses[1]) } :
       call' = [ call EXCEPT !.done = TRUE, !.raised = out.raised,
                             !.result = out.value ]
  /\ UNCHANGED << state, budget_matches, id_used, chosen, round,
                  travel_style, use_weather, round_locations, rng,
                  locations, ranked >>

CallEnrich ==
  /\ call.fn = "enrich_destinations_with_weather"
  /\ ~call.done
  /\ \E out \in { EnrichScore(call.destination, call.preferred_temp_range,
                              call.responses) } :
       call' = [ call EXCEPT !.done = TRUE, !.raised = out.raised,
                             !.result = out.value ]
  /\ UNCHANGED << state, budget_matches, id_used, chosen, round,
                  travel_style, use_weather, round_locations, rng,
                  locations, ranked >>

NextWeather == CallWeatherScore \/ CallEnrich

SpecWeather == InitWeather /\ [][NextWeather]_vars

---------------------------------------------------------------------------
(* Recommendation confidence: src/src/matching.py. Scores are floats with
   one decimal, held in tenths; x tenths stands for the double nearest to
   x / 10. *)

\* the double nearest to x / 10, x > 0, is m * 2^-k with 2^52 <= m < 2^53:
\* this is k
DoubleScale(x) ==
  IF x >= 1280 THEN 45 ELSE IF x >= 640 THEN 46 ELSE IF x >= 320 THEN 47
  ELSE IF x >= 160 THEN 48 ELSE IF x >= 80 THEN 49 ELSE IF x >= 40 THEN 50
  ELSE IF x >= 20 THEN 51 ELSE IF x >= 10 THEN 52 ELSE IF x >= 5 THEN 53
  ELSE IF x >= 3 THEN 54 ELSE IF x >= 2 THEN 55 ELSE 56

\* 2^k mod 10, k >= 1
PowerOfTwoMod10(k) == << 2, 4, 8, 6 >>[((k - 1) % 4) + 1]

\* the remainder of x * 2^k divided by 10
DoubleRemainder(x) == ((x % 10) * PowerOfTwoMod10(DoubleScale(x))) % 10

\* the double nearest to x / 10, minus x / 10, in units of 2^-56 / 10, x > 0
PositiveDoubleError(x) ==
  IF DoubleRemainder(x) < 5
  THEN (0 - DoubleRemainder(x)) * 2 ^ (56 - DoubleScale(x))
  ELSE (10 - DoubleRemainder(x)) * 2 ^ (56 - DoubleScale(x))

\* the same for every x: the doubles are symmetric around 0
DoubleError(x) ==
  IF x = 0 THEN 0
  ELSE IF x < 0 THEN 0 - PositiveDoubleError(0 - x)
  ELSE PositiveDoubleError(x)

\* half of the distance from the double t to the next double below it, in
\* units of 2^-56 / 10, for the thresholds of the bands
HalfUlpBelow(t) ==
  IF t = 10 THEN 640 ELSE IF t = 7 THEN 320 ELSE IF t = 4 THEN 160 ELSE 80

\* scores[0] - scores[1] >= t in double arithmetic, t a threshold of the
\* bands: the difference of the two doubles, rounded to a double
GapAtLeast(first, second, t) ==
  IF first - second # 10 * t THEN first - second > 10 * t
  ELSE DoubleError(first) - DoubleError(second) >= 0 - HalfUlpBelow(t)

\* d.get('combined_score', 0)
CombinedScore(d) == IF Has(d, "combined_score") THEN d["combined_score"] ELSE 0

\* the result for an empty list
NoData ==
  [ confidence |-> 0, label |-> "No data", gap_to_second |-> 0,
    top_score |-> 0 ]

\* faulty variant: a single item is banded like the top of a longer list
OnlyOptionBanded(ranked_destinations) ==
  [ confidence |-> IF CombinedScore(ranked_destinations[1]) < 500 THEN 50
                   ELSE 95,
    label |-> "Only option", gap_to_second |-> 0,
    top_score |-> CombinedScore(ranked_destinations[1]) ]

\* the result for a list of one item
OnlyOption(ranked_destinations) ==
  [ confidence |-> 100, label |-> "Only option", gap_to_second |-> 0,
    top_score |-> CombinedScore(ranked_destinations[1]) ]

\* the confidence level and label for the two best scores
Band(first, second) ==
  IF GapAtLeast(first, second, 10) /\ first >= 750
  THEN << 95, "Very High" >>
  ELSE IF GapAtLeast(first, second, 7) /\ first >= 700
  THEN << 85, "High" >>
  ELSE IF GapAtLeast(first, second, 4) /\ first >= 600
  THEN << 70, "Good" >>
  ELSE IF GapAtLeast(first, second, 2) THEN << 55, "Medium" >>
  ELSE << 40, "Low" >>

\* if top_score < 50: confidence = min(confidence, 50)
LowTop(confidence, top_score) ==
  IF top_score < 500 THEN Min2(confidence, 50) ELSE confidence

\* the result for a list of two or more items
Banded(first, second) ==
  [ confidence |-> LowTop(Band(first, second)[1], first),
    label |-> Band(first, second)[2],
    gap_to_second |-> first - second, top_score |-> first ]

\* calculate_recommendation_confidence, without the emoji, the
\* recommendation text and top5_spread
calculate_recommendation_confidence(ranked_destinations) ==
  IF ranked_destinations = << >> THEN NoData
  ELSE IF Len(ranked_destinations) = 1 THEN OnlyOption(ranked_destinations)
  ELSE Banded(CombinedScore(ranked_destinations[1]),
              CombinedScore(ranked_destinations[2]))

---------------------------------------------------------------------------
(* Direct calls of calculate_recommendation_confidence. *)

\* combined scores in tenths, around the thresholds of the bands
ConfidenceScores ==
  { 0, 3, 23, 77, 97, 459, 480, 499, 500, 520, 599, 600, 640, 699, 700,
    750, 770, 850, 851, 1000, 1267 }

Item(i, score) == [ id |-> i, combined_score |-> score ]

InitConfidence ==
  /\ Defaults
  /\ rng = 0
  /\ \E ranked_destinations \in
          { << >>, << [ id |-> 1 ] >>, << Item(1, 600), [ id |-> 2 ] >>,
            << [ id |-> 1 ], Item(2, 300) >> }
          \cup { << Item(1, a) >> : a \in ConfidenceScores }
          \cup { << Item(1, a), Item(2, b) >> :
                   a \in ConfidenceScores, b \in ConfidenceScores }
          \cup { << Item(1, a), Item(2, a - 70), Item(3, a - 80),
                    Item(4, 0), Item(5, 0), Item(6, 1000) >> :
                   a \in { 500, 770, 1000 } } :
       call = [ fn |-> "calculate_recommendation_confidence",
                ranked_destinations |-> ranked_destinations,
                done |-> FALSE, result |-> NoData ]

CallConfidence ==
  /\ call.fn = "calculate_recommendation_confidence"
  /\ ~call.done
  /\ call' = [ call EXCEPT
                 !.done = TRUE,
                 !.result = calculate_recommendation_confidence(
                              call.ranked_destinations) ]
  /\ UNCHANGED << state, budget_matches, id_used, chosen, round,
                  travel_style, use_weather, round_locations, rng,
                  locations, ranked >>

NextConfidence == CallConfidence

SpecConfidence == InitConfidence /\ [][NextConfidence]_vars

---------------------------------------------------------------------------
(* Direct calls of calculate_combined_score. Scores are in tenths, the
   weather weight in percent. Inputs whose blend is an exact tie between two
   tenths are left out: the float blend of such inputs is not a tie. *)

BlendScores == { 0, 1, 7, 123, 333, 499, 500, 501, 667, 845, 999, 1000 }

BlendWeights == { 0, 1, 20, 33, 50, 99, 100 }

InitBlend ==
  /\ Defaults
  /\ rng = 0
  /\ \E x \in BlendScores, w \in BlendWeights :
       \/ call = [ fn |-> "calculate_combined_score",
                   destination |-> [ id |-> 1 ], match_score |-> x,
                   weather_weight |-> w, done |-> FALSE, result |-> 0 ]
       \/ \E y \in BlendScores :
            /\ (x * (100 - w) + y * w) % 100 # 50
            /\ call = [ fn |-> "calculate_combined_score",
                        destination |-> [ id |-> 1, weather_score |-> y ],
                        match_score |-> x, weather_weight |-> w,
                        done |-> FALSE, result |-> 0 ]

CallCombined ==
  /\ call.fn = "calculate_combined_score"
  /\ ~call.done
  /\ call' = [ call EXCEPT
                 !.done = TRUE,
                 !.result = calculate_combined_score(call.destination,
                              call.match_score, call.weather_weight) ]
  /\ UNCHANGED << state, budget_matches, id_used, chosen, round,
                  travel_style, use_weather, round_locations, rng,
                  locations, ranked >>

NextBlend == CallCombined

SpecBlend == InitBlend /\ [][NextBlend]_vars

---------------------------------------------------------------------------
(* Direct calls of preference_vector and calculate_feature_ranges on lists
   of destinations that lack some features. *)

VectorDests ==
  { [ id |-> 1, safety |-> 4, crowds |-> 2, avg_budget_per_day |-> 50 ],
    [ id |-> 2, safety |-> 1, beach |-> 5, avg_budget_per_day |-> 120 ],
    [ id |-> 3, safety |-> 5, crowds |-> 5 ],
    [ id |-> 4, beach |-> 2, culture |-> 3 ],
    [ id |-> 5, avg_budget_per_day |-> 200 ],
    [ id |-> 6 ] }

\* the lists of one to three destinations
VectorLists ==
  { << >> } \cup { << a >> : a \in VectorDests }
  \cup { << a, b >> : a \in VectorDests, b \in VectorDests }
  \cup { << a, b, c >> : a \in VectorDests, b \in VectorDests,
                         c \in VectorDests }

InitVectors ==
  /\ Defaults
  /\ rng = 0
  /\ \E ds \in VectorLists :
       \/ call = [ fn |-> "preference_vector", chosen |-> ds,
                   done |-> FALSE, result |-> << >> ]
       \/ call = [ fn |-> "calculate_feature_ranges", destinations |-> ds,
                   done |-> FALSE, result |-> << >> ]

CallPreference ==
  /\ call.fn = "preference_vector"
  /\ ~call.done
  /\ call' = [ call EXCEPT !.done = TRUE,
                           !.result = preference_vector(call.chosen) ]
  /\ UNCHANGED << state, budget_matches, id_used, chosen, round,
                  travel_style, use_weather, round_locations, rng,
                  locations, ranked >>

CallRanges ==
  /\ call.fn = "calculate_feature_ranges"
  /\ ~call.done
  /\ call' = [ call EXCEPT
                 !.done = TRUE,
                 !.result = calculate_feature_ranges(call.destinations) ]
  /\ UNCHANGED << state, budget_matches, id_used, chosen, round,
                  travel_style, use_weather, round_locations, rng,
                  locations, ranked >>

NextVectors == CallPreference \/ CallRanges

SpecVectors == InitVectors /\ [][NextVectors]_vars

---------------------------------------------------------------------------
(* Sessions where process_selection is called with any id, shown in this
   round or not: src/streamlit_app.py *)

SelectSessions ==
  { << 4, "balanced", FALSE >>, << 11, "budget_backpacker", TRUE >> }

StartMatchingSelect == StartSession(SelectSessions)

\* an id that no destination has, and one that is not always shown
OtherIds == { 0, 1 }

\* process_selection(choice_id, locations) on the locations of this round;
\* call records the arguments and the round of the call
CallSelection ==
  /\ state = "Matching"
  /\ round \in DOMAIN round_locations
  /\ \E choice_id \in Ids(round_locations[round]) \cup OtherIds :
       /\ get_smart_round_locations
       /\ process_selection(choice_id, locations')
       /\ call' = [ fn |-> "process_selection", choice_id |-> choice_id,
                    locations |-> locations', round |-> round ]
  /\ UNCHANGED << budget_matches, travel_style, use_weather >>

NextSelect ==
  \/ StartMatchingSelect
  \/ ShowRound
  \/ CallSelection
  \/ ShowResults
  \/ StartOver

SpecSelect == Init /\ [][NextSelect]_vars

---------------------------------------------------------------------------
(* Properties *)

BudgetBetween(lo, hi, r) ==
  /\ "avg_budget_per_day" \in DOMAIN r
  /\ r["avg_budget_per_day"][1] <= lo
  /\ r["avg_budget_per_day"][2] >= hi

\* C1: with weights {avg_budget_per_day: -3.0} and preference
\* {avg_budget_per_day: 50}, over a budget range that contains 50 and 200,
\* the candidate with budget 200 gets a strictly lower match score than the
\* candidate with budget 50.
C1_HigherBudgetScoresLower ==
  ( /\ call.fn = "calculate_match_score"
    /\ call.done
    /\ call.weights = [ avg_budget_per_day |-> -6 ]
    /\ call.preference = [ avg_budget_per_day |-> << 50, 1 >> ]
    /\ BudgetBetween(50, 200, call.feature_ranges) )
  => \A i, j \in DOMAIN call.candidates :
       ( /\ call.candidates[i] = BudgetOnly(3, 200)
         /\ call.candidates[j] = BudgetOnly(1, 50) )
       => call.result[i] < call.result[j]

\* C2: every item a call of ranking_destinations returns, the calls of the
\* exploitation rounds included, has its match_score and its combined_score
\* within 0 .. 100 (0 .. 1000 tenths).
C2_RankedScoresInRange ==
  \A i \in DOMAIN ranked :
    /\ ranked[i]["match_score"] \in 0 .. 1000
    /\ ranked[i]["combined_score"] \in 0 .. 1000


\* the destinations of the pool not shown so far, in pool order
Unshown ==
  SelectSeq(budget_matches, LAMBDA d : \A i \in DOMAIN id_used :
                                         id_used[i] # d["id"])

\* the selection of the current round has been made in exploration
ExploreShown ==
  /\ state = "Matching"
  /\ round \in DOMAIN round_locations
  /\ (round < 3 \/ Len(chosen) < 3)

\* C3: in exploration the returned subset holds only destinations of the
\* pool that were not shown before, holds none twice, has exactly
\* min(k, number of unshown destinations) items, and is the unshown
\* destinations in pool order when at most k are left.
C3_ExploreSubset ==
  ExploreShown =>
    LET shown == round_locations[round]
    IN  /\ locations = shown
        /\ \A i \in DOMAIN shown : shown[i] \in Range(Unshown)
        /\ \A i, j \in DOMAIN shown : i # j => shown[i]["id"] # shown[j]["id"]
        /\ Len(shown) = Min2(LOCATIONS_PER_ROUND, Len(Unshown))
        /\ (Len(Unshown) <= LOCATIONS_PER_ROUND => shown = Unshown)

C3_Witness ==
  /\ ExploreShown
  /\ round = 2
  /\ Len(Unshown) > LOCATIONS_PER_ROUND
  /\ Len(locations) = LOCATIONS_PER_ROUND

\* C4: a repeated call of get_smart_round_locations for the same round, with
\* no confirmed choice in between, returns the subset the first call
\* returned, items and order, in exploration and in exploitation.
C4_IdempotentWithinRound ==
  [][ ( /\ state = "Matching"
        /\ state' = "Matching"
        /\ round' = round
        /\ round \in DOMAIN round_locations )
      => ( /\ locations' = locations
           /\ round_locations' = round_locations
           /\ locations' = round_locations[round] ) ]_vars

C4_Witness ==
  /\ state = "Matching"
  /\ round >= 3
  /\ round \in DOMAIN round_locations
  /\ locations = round_locations[round]
  /\ Len(locations) = LOCATIONS_PER_ROUND
  /\ Len(Unshown) > LOCATIONS_PER_ROUND

\* C5: after ROUNDS confirmed rounds chosen has exactly ROUNDS entries and
\* id_used holds every id shown in any round, none twice, with
\* ROUNDS <= len(id_used) <= ROUNDS * LOCATIONS_PER_ROUND.
C5_AfterAllRounds ==
  round = ROUNDS =>
    /\ Len(chosen) = ROUNDS
    /\ \A r \in DOMAIN round_locations :
         Ids(round_locations[r]) \subseteq Range(id_used)
    /\ \A i, j \in DOMAIN id_used : i # j => id_used[i] # id_used[j]
    /\ Len(id_used) >= ROUNDS
    /\ Len(id_used) <= ROUNDS * LOCATIONS_PER_ROUND

C5_Witness ==
  /\ round = ROUNDS
  /\ DOMAIN round_locations = 0 .. (ROUNDS - 1)
  /\ Len(id_used) > ROUNDS

\* C6: a confirmed choice leaves the session in Results exactly when it made
\* round reach ROUNDS, and in Matching otherwise; no Matching state has
\* round >= ROUNDS and no subset is selected for a round index >= ROUNDS.
C6_ResultsExactlyAtLastRound ==
  /\ [][ round' = round + 1
         => /\ (state' = "Results") <=> (round' = ROUNDS)
            /\ (round' < ROUNDS => state' = "Matching") ]_vars
  /\ [](state = "Matching" => round < ROUNDS)
  /\ [](\A r \in DOMAIN round_locations : r < ROUNDS)

C6_Witness ==
  /\ state = "Results"
  /\ round = ROUNDS
  /\ Len(chosen) = ROUNDS

\* C7: a session in Matching reaches Results when the user confirms a choice
\* whenever destinations are shown: after at most ROUNDS confirmed choices,
\* and without a further choice once no unshown destination is left.
C7_MatchingReachesResults ==
  /\ (state = "Matching") ~> (state = "Results")
  /\ [](Len(chosen) <= ROUNDS)
  /\ [][ ( /\ state = "Matching"
           /\ Unshown = << >>
           /\ round \notin DOMAIN round_locations )
         => (state' = "Results" /\ chosen' = chosen) ]_vars

C7_Witness ==
  /\ state = "Results"
  /\ round < ROUNDS
  /\ Unshown = << >>
  /\ Len(chosen) = round

RankCalled == call.fn = "ranking_destinations" /\ call.calls >= 1

PoolIndex(id) ==
  CHOOSE i \in DOMAIN call.budget_matches : call.budget_matches[i]["id"] = id

\* C9: two returned items with equal combined_score keep the order they have
\* in the input pool; with no choice and use_weather off the output order is
\* the pool order.
C9_TiesKeepPoolOrder ==
  RankCalled =>
    /\ \A i, j \in DOMAIN call.result :
         ( /\ i < j
           /\ call.result[i]["combined_score"]
                = call.result[j]["combined_score"] )
         => PoolIndex(call.result[i]["id"]) < PoolIndex(call.result[j]["id"])
    /\ ( (call.chosen = << >> /\ ~call.use_weather)
         => IdSeq(call.result) = IdSeq(call.budget_matches) )

C9_Witness ==
  /\ RankCalled
  /\ call.chosen # << >>
  /\ \E i, j \in DOMAIN call.result :
       /\ i < j
       /\ call.result[i]["combined_score"] = call.result[j]["combined_score"]
  /\ \E i, j \in DOMAIN call.result :
       call.result[i]["combined_score"] > call.result[j]["combined_score"]

\* no feature of the destination enters the sums: each is missing in the
\* preference or on the destination, or has no weight or weight 0
NoContribution(destination, preference, weights) ==
  \A f \in Range(all_features) :
    \/ f \notin DOMAIN preference
    \/ f \notin DOMAIN destination
    \/ f \notin DOMAIN weights
    \/ weights[f] = 0

\* C10: calculate_match_score returns exactly 50.0 when the preference is
\* empty, for every destination, ranges and weights, and when no feature
\* contributes.
C10_NeutralScore ==
  (call.fn = "calculate_match_score" /\ call.done) =>
    \A i \in DOMAIN call.candidates :
      ( \/ DOMAIN call.preference = {}
        \/ NoContribution(call.candidates[i], call.preference, call.weights) )
      => call.result[i] = 500

C10_Witness ==
  /\ call.fn = "calculate_match_score"
  /\ call.done
  /\ DOMAIN call.preference # {}
  /\ NoContribution(call.candidates[1], call.preference, call.weights)
  /\ ~NoContribution(call.candidates[2], call.preference, call.weights)
  /\ call.result[1] = 500
  /\ call.result[2] # 500

\* a call with a programmer-error input: a negative count, or a destination
\* without an id among the inputs
ProgrammerError ==
  \/ /\ call.fn = "find_similar_destinations"
     /\ \/ call.num_similar < 0
        \/ ~Has(call.target, "id")
        \/ \E i \in DOMAIN call.all_destinations :
             ~Has(call.all_destinations[i], "id")
  \/ /\ call.fn = "test_locations"
     /\ \/ call.x < 0
        \/ \E i \in DOMAIN call.budget_matches :
             ~Has(call.budget_matches[i], "id")
  \/ /\ call.fn = "ranking_destinations"
     /\ \E i \in DOMAIN call.budget_matches :
          ~Has(call.budget_matches[i], "id")

\* the call is over and it returned a value
Returned ==
  \/ call.fn \in { "find_similar_destinations", "test_locations" }
     /\ call.done /\ call.raised = ""
  \/ call.fn = "ranking_destinations" /\ call.calls > 0

\* C11: a call of an engine function with a negative count or with a
\* destination that has no id raises an error: it never returns a value.
C11_ProgrammerErrorsRaise == ProgrammerError => ~Returned

SimilarCalled == call.fn = "find_similar_destinations" /\ call.done

\* C14: for every count k >= 0, find_similar_destinations returns no item
\* whose id is the id of the target, also when the pool holds the target
\* several times.
C14_NeverReturnsTarget ==
  (SimilarCalled /\ call.num_similar >= 0 /\ Has(call.target, "id"))
    => \A i \in DOMAIN call.result :
         ~(Has(call.result[i], "id")
           /\ call.result[i]["id"] = call.target["id"])

C14_Witness ==
  /\ SimilarCalled
  /\ call.num_similar >= 1
  /\ Has(call.target, "id")
  /\ Cardinality({ i \in DOMAIN call.all_destinations :
                     /\ Has(call.all_destinations[i], "id")
                     /\ call.all_destinations[i]["id"] = call.target["id"] })
       >= 2
  /\ call.result # << >>


StartPageDone == call.fn = "render_start_page" /\ state = "Matching"

\* C12: every destination of the candidate pool of a session costs at most
\* 1.2 times the total budget, with total_cost = flight_price * travelers
\* + avg_budget_per_day * days * travelers, and the pool is in ascending
\* order of total_cost.
C12_PoolWithinBudgetAndSorted ==
  StartPageDone =>
    /\ \A i \in DOMAIN budget_matches :
         TotalCost(budget_matches[i], call.trip_days, call.num_travelers) * 10
           <= call.total_budget * 12
    /\ \A i \in DOMAIN budget_matches : \A j \in DOMAIN budget_matches :
         i < j =>
           TotalCost(budget_matches[i], call.trip_days, call.num_travelers)
             <= TotalCost(budget_matches[j], call.trip_days,
                          call.num_travelers)


WeatherCalled ==
  /\ call.fn \in { "calculate_weather_score",
                   "enrich_destinations_with_weather" }
  /\ call.done

\* the answer of the service has no temperature to score
NoTemperature(response) ==
  \/ ~Has(response, "status_code")
  \/ Has(response, "status_code") /\ response["status_code"] # 200
  \/ Has(response, "status_code") /\ response["status_code"] = 200
     /\ ~Has(response["current_weather"], "temperature")

\* weather data is unavailable: a coordinate is missing, or a request failed,
\* timed out or was answered without a temperature
WeatherUnavailable ==
  \/ ~Has(call.destination, "latitude")
  \/ ~Has(call.destination, "longitude")
  \/ \E i \in DOMAIN call.responses : NoTemperature(call.responses[i])

\* C13: the weather score of a destination is within [0, 100]; when weather
\* data is unavailable the score is 50.0; and no error is raised.
C13_WeatherScoreTotal ==
  WeatherCalled =>
    /\ call.raised = ""
    /\ call.result \in 0 .. 10000
    /\ WeatherUnavailable => call.result = 5000


ConfidenceCalled ==
  call.fn = "calculate_recommendation_confidence" /\ call.done

\* C15: the confidence of an empty ranked list is 0, and the confidence of a
\* ranked list of one item is 100 whatever the combined_score of the item.
C15_EmptyAndSingle ==
  ConfidenceCalled =>
    /\ call.ranked_destinations = << >> => call.result.confidence = 0
    /\ Len(call.ranked_destinations) = 1 => call.result.confidence = 100

C15_Witness ==
  /\ ConfidenceCalled
  /\ Len(call.ranked_destinations) = 1
  /\ CombinedScore(call.ranked_destinations[1]) \in 1 .. 499
  /\ call.result.confidence = 100

\* the band of two combined scores, in exact decimal arithmetic
ExactBand(top, second) ==
  IF top - second >= 100 /\ top >= 750 THEN << 95, "Very High" >>
  ELSE IF top - second >= 70 /\ top >= 700 THEN << 85, "High" >>
  ELSE IF top - second >= 40 /\ top >= 600 THEN << 70, "Good" >>
  ELSE IF top - second >= 20 THEN << 55, "Medium" >>
  ELSE << 40, "Low" >>

\* C16: for a ranked list of two or more items, with gap = combined[0] -
\* combined[1] and top = combined[0], the result is the first band that
\* matches (gap >= 10 and top >= 75: 95 Very High; gap >= 7 and top >= 70:
\* 85 High; gap >= 4 and top >= 60: 70 Good; gap >= 2: 55 Medium; else 40
\* Low), and then the confidence is limited to 50 when top < 50.
C16_Bands ==
  (ConfidenceCalled /\ Len(call.ranked_destinations) >= 2) =>
    \E top \in { CombinedScore(call.ranked_destinations[1]) },
       second \in { CombinedScore(call.ranked_destinations[2]) } :
      /\ call.result.label = ExactBand(top, second)[2]
      /\ call.result.confidence =
           IF top < 500 THEN Min2(ExactBand(top, second)[1], 50)
           ELSE ExactBand(top, second)[1]
      /\ top < 500 => call.result.confidence <= 50


CombinedCalled == call.fn = "calculate_combined_score" /\ call.done

\* C17: the blend of a match score with an equal weather score is that
\* score, for every score in [0, 100] and every weather weight in [0, 1].
C17_BlendOfEqualScores ==
  ( /\ CombinedCalled
    /\ Has(call.destination, "weather_score")
    /\ call.destination["weather_score"] = call.match_score )
    => call.result = call.match_score

C17_Witness ==
  /\ CombinedCalled
  /\ Has(call.destination, "weather_score")
  /\ call.destination["weather_score"] = call.match_score
  /\ call.match_score = 667
  /\ call.weather_weight = 33
  /\ call.result = 667


PreferenceCalled == call.fn = "preference_vector" /\ call.done

\* the positions of the items that have a feature
Present(items, feature) ==
  { i \in DOMAIN items : Has(items[i], feature) }

\* the sum of the values of a feature over the items at the indices S
RECURSIVE SumAt(_, _, _)
SumAt(items, feature, S) ==
  IF S = {} THEN 0
  ELSE LET i == CHOOSE j \in S : TRUE
       IN  items[i][feature] + SumAt(items, feature, S \ { i })

\* C18: the preference vector of no choice is the empty map; otherwise it
\* has an entry exactly for the features that at least one chosen item has,
\* each entry is the mean over the chosen items that have the feature
\* (an absent value is not counted as zero), and so lies between the least
\* and the greatest value of the feature among the chosen items.
C18_PreferenceIsMeanOfPresent ==
  PreferenceCalled =>
    /\ call.chosen = << >> => call.result = << >>
    /\ DOMAIN call.result =
         { f \in Range(all_features) : Present(call.chosen, f) # {} }
    /\ \A f \in DOMAIN call.result :
         /\ call.result[f][2] > 0
         /\ call.result[f][1] * Cardinality(Present(call.chosen, f))
              = SumAt(call.chosen, f, Present(call.chosen, f))
                  * call.result[f][2]
         /\ \E i \in Present(call.chosen, f) :
              call.chosen[i][f] * call.result[f][2] <= call.result[f][1]
         /\ \E i \in Present(call.chosen, f) :
              call.chosen[i][f] * call.result[f][2] >= call.result[f][1]

\* three choices, one of them without the feature crowds
C18_Witness ==
  /\ PreferenceCalled
  /\ Len(call.chosen) = 3
  /\ Cardinality(Present(call.chosen, "crowds")) = 2
  /\ "crowds" \in DOMAIN call.result
  /\ call.result["crowds"] = << 7, 2 >>
  /\ "culture" \notin DOMAIN call.result

RangesCalled == call.fn = "calculate_feature_ranges" /\ call.done

\* C19: calculate_feature_ranges gives every feature a pair (min, max) with
\* min <= max: the least and the greatest value over the destinations that
\* have the feature, and (1, 5) when no destination has it, the empty pool
\* included.
C19_RangesAreMinMax ==
  RangesCalled =>
    /\ DOMAIN call.result = Range(all_features)
    /\ \A f \in Range(all_features) :
         /\ call.result[f][1] <= call.result[f][2]
         /\ Present(call.destinations, f) = {}
              => call.result[f] = << 1, 5 >>
         /\ Present(call.destinations, f) # {}
              => /\ \E i \in Present(call.destinations, f) :
                      call.destinations[i][f] = call.result[f][1]
                 /\ \E i \in Present(call.destinations, f) :
                      call.destinations[i][f] = call.result[f][2]
                 /\ \A i \in Present(call.destinations, f) :
                      /\ call.result[f][1] <= call.destinations[i][f]
                      /\ call.destinations[i][f] <= call.result[f][2]

\* a pool where a feature has different values and another is on no item
C19_Witness ==
  /\ RangesCalled
  /\ Len(call.destinations) = 3
  /\ call.result["avg_budget_per_day"] = << 50, 200 >>
  /\ Present(call.destinations, "safety") # {}
  /\ Cardinality(Present(call.destinations, "safety")) < 3
  /\ call.result["nightlife"] = << 1, 5 >>


\* a feature with a weight that the candidate or the preference lacks
AbsentWeighted(destination, preference, weights, f) ==
  /\ f \in DOMAIN weights
  /\ weights[f] # 0
  /\ (f \notin DOMAIN preference \/ ~Has(destination, f))

\* C20: a weighted feature that the candidate or the preference lacks is
\* skipped for that pair: it adds to neither sum, so the score is the score
\* computed with the weight of that feature set to 0.
C20_AbsentFeatureSkipped ==
  (call.fn = "calculate_match_score" /\ call.done) =>
    \A i \in DOMAIN call.candidates : \A f \in Range(all_features) :
      AbsentWeighted(call.candidates[i], call.preference, call.weights, f)
        => call.result[i] =
             calculate_match_score(call.candidates[i], call.preference,
                                   call.feature_ranges,
                                   Put(call.weights, f, 0))

\* a candidate without a weighted feature of the preference, scored on
\* another feature
C20_Witness ==
  /\ call.fn = "calculate_match_score"
  /\ call.done
  /\ AbsentWeighted(call.candidates[1], call.preference, call.weights,
                    "avg_budget_per_day")
  /\ "avg_budget_per_day" \in DOMAIN call.preference
  /\ ~NoContribution(call.candidates[1], call.preference, call.weights)
  /\ call.result[1] \notin { 0, 500, 1000 }


\* the ranking computed with given weights instead of a travel style
RankWithWeights(pool, chosen_, weights, use_weather_, weather_weight) ==
  SortByScore(ScoreLoop(pool, preference_vector(chosen_),
                        calculate_feature_ranges(pool), weights,
                        use_weather_, weather_weight),
              << >>)

\* C21: a travel style that is not in TRAVEL_STYLES is not an error:
\* ranking_destinations returns exactly the ranking computed with
\* DEFAULT_WEIGHTS on the same inputs.
C21_UnknownStyleIsDefault ==
  (RankCalled /\ call.travel_style \notin DOMAIN TRAVEL_STYLES) =>
    call.result = RankWithWeights(call.budget_matches, call.chosen,
                                  DEFAULT_WEIGHTS, call.use_weather,
                                  call.weather_weight)

\* an unknown style whose ranking is not the ranking of the balanced style
C21_Witness ==
  /\ RankCalled
  /\ call.travel_style \notin DOMAIN TRAVEL_STYLES
  /\ call.chosen # << >>
  /\ Len(call.result) >= 4
  /\ call.result # RankWithWeights(call.budget_matches, call.chosen,
                                   TRAVEL_STYLES["balanced"],
                                   call.use_weather, call.weather_weight)


\* C22: with an empty pool, ranking_destinations, test_locations and
\* find_similar_destinations return an empty list and raise nothing, for
\* every chosen list, style and count k >= 0.
C22_EmptyPoolGivesEmptyList ==
  /\ (SimilarCalled /\ call.all_destinations = << >>
        /\ call.num_similar >= 0)
       => (call.raised = "" /\ call.result = << >>)
  /\ (call.fn = "test_locations" /\ call.done
        /\ call.budget_matches = << >> /\ call.x >= 0)
       => (call.raised = "" /\ call.result = << >>)
  /\ (RankCalled /\ call.budget_matches = << >>) => call.result = << >>

\* a round selection of three from the empty pool, with ids already used
C22_Witness ==
  /\ call.fn = "test_locations"
  /\ call.done
  /\ call.budget_matches = << >>
  /\ call.id_used # << >>
  /\ call.x = 3
  /\ call.raised = ""
  /\ call.result = << >>


\* the selection of the current round has been made in exploitation, from
\* the ranking in ranked
ExploitShown ==
  /\ state = "Matching"
  /\ round \in DOMAIN round_locations
  /\ round >= 3
  /\ Len(chosen) >= 3

\* the shown destinations that are among the first ten of the ranking
ShownInTopTen ==
  { i \in DOMAIN round_locations[round] :
      round_locations[round][i]["id"] \in Ids(SubSeq(ranked, 1, 10)) }

\* C23: in exploitation with more than ten candidates left, two of the
\* three shown destinations are sampled from the first ten of the ranking
\* and one from the positions after them: exactly two of the three are
\* among the first ten.
C23_ExactlyTwoOfTopTen ==
  (ExploitShown /\ Len(ranked) > 10) =>
    /\ Len(round_locations[round]) = 3
    /\ Cardinality(ShownInTopTen) = 2


\* C24: a confirmed choice appends the chosen item to chosen, appends the
\* ids of all the shown items, not only of the chosen one, to id_used, and
\* adds 1 to round; the pool, the style and the settings are unchanged.
C24_ConfirmedChoiceEffect ==
  [][ round' # round =>
        \/ round' = 0
        \/ /\ round' = round + 1
           /\ round \in DOMAIN round_locations
           /\ \E i \in DOMAIN round_locations[round] :
                chosen' = Append(chosen, round_locations[round][i])
           /\ id_used' = id_used \o IdSeq(round_locations[round])
           /\ budget_matches' = budget_matches
           /\ travel_style' = travel_style
           /\ use_weather' = use_weather
           /\ round_locations' = round_locations ]_vars

\* a choice has been confirmed among three shown destinations
C24_Witness ==
  /\ round = 4
  /\ Len(chosen) = 4
  /\ Len(id_used) = 12
  /\ 3 \in DOMAIN round_locations
  /\ chosen[4] \in Range(round_locations[3])
  /\ chosen[4] # round_locations[3][1]


\* C27: in every state of a session round = len(chosen), so the condition
\* of exploration, round < 3 or len(chosen) < 3, is round < 3: the rounds
\* 0, 1, 2 are exploration and every later round is exploitation.
C27_RoundIsNumberOfChoices ==
  /\ round = Len(chosen)
  /\ (round < 3 \/ Len(chosen) < 3) <=> round < 3

\* a selection made in exploitation
C27_Witness ==
  /\ ExploitShown
  /\ round = 3
  /\ Len(chosen) = 3
  /\ ranked # << >>

\* C28: no destination is shown in more than one round of a session: the
\* subsets of different rounds are disjoint by id, the ids of chosen are
\* distinct, and every chosen id is in id_used.
C28_RoundsAreDisjoint ==
  /\ \A r \in DOMAIN round_locations : \A s \in DOMAIN round_locations :
       r # s => Ids(round_locations[r]) \cap Ids(round_locations[s]) = {}
  /\ \A i \in DOMAIN chosen : \A j \in DOMAIN chosen :
       i # j => chosen[i]["id"] # chosen[j]["id"]
  /\ Ids(chosen) \subseteq Range(id_used)

\* five rounds shown, four choices made
C28_Witness ==
  /\ DOMAIN round_locations = 0 .. 4
  /\ Len(chosen) = 4
  /\ Len(round_locations[4]) = LOCATIONS_PER_ROUND


\* the positions of the pool that find_similar_destinations scores: not the
\* target, and a feature in common with it
Comparable ==
  { i \in DOMAIN call.all_destinations :
      /\ ~( \/ ( /\ Has(call.all_destinations[i], "id")
                 /\ Has(call.target, "id")
                 /\ call.all_destinations[i]["id"] = call.target["id"] )
            \/ ( /\ ~Has(call.all_destinations[i], "id")
                 /\ ~Has(call.target, "id") ) )
      /\ \E j \in DOMAIN similar_features :
           /\ Has(call.all_destinations[i], similar_features[j])
           /\ Has(call.target, similar_features[j]) }

\* the pool item at position i with its similarity_score
WithSimilarity(i) ==
  Put(call.all_destinations[i], "similarity_score",
      SimilarityScore(SimilarityLoop(1, call.target,
                                     call.all_destinations[i], << 0, 0 >>)))

\* C25: find_similar_destinations returns at most k items, in
\* non-increasing order of similarity_score with ties in pool order, and they
\* are the k best: no pool item that is left out, other than the target and
\* the items with no feature in common with it, has a higher
\* similarity_score than a returned item.
C25_TopKSimilar ==
  (SimilarCalled /\ call.num_similar >= 0) =>
    /\ Len(call.result) = Min2(call.num_similar, Cardinality(Comparable))
    /\ \E pos \in [ DOMAIN call.result -> Comparable ] :
         /\ \A a \in DOMAIN call.result : call.result[a] = WithSimilarity(pos[a])
         /\ \A a \in DOMAIN call.result : \A b \in DOMAIN call.result :
              a < b =>
                /\ pos[a] # pos[b]
                /\ call.result[a]["similarity_score"]
                     >= call.result[b]["similarity_score"]
                /\ call.result[a]["similarity_score"]
                     = call.result[b]["similarity_score"] => pos[a] < pos[b]
         /\ \A i \in Comparable \ { pos[a] : a \in DOMAIN call.result } :
              \A a \in DOMAIN call.result :
                WithSimilarity(i)["similarity_score"]
                  <= call.result[a]["similarity_score"]

\* two of four comparable items returned, with equal scores in the pool
C25_Witness ==
  /\ SimilarCalled
  /\ call.num_similar = 2
  /\ Cardinality(Comparable) >= 4
  /\ Len(call.result) = 2
  /\ \E i \in Comparable : \E j \in Comparable :
       /\ i < j
       /\ WithSimilarity(i)["similarity_score"]
            = WithSimilarity(j)["similarity_score"]
       /\ call.result[2] = WithSimilarity(i)


\* a destination without its weather_score
WithoutWeather(d) == [ k \in DOMAIN d \ { "weather_score" } |-> d[k] ]

\* a list of destinations without their weather scores
AllWithoutWeather(ds) == [ i \in DOMAIN ds |-> WithoutWeather(ds[i]) ]

\* a list of destinations where a missing weather_score is 50.0
AllWithNeutralWeather(ds) ==
  [ i \in DOMAIN ds |->
      IF Has(ds[i], "weather_score") THEN ds[i]
      ELSE Put(ds[i], "weather_score", 5000) ]

\* C26: with use_weather false the ranking does not depend on the weather
\* scores: combined_score is match_score for every item, and pools that
\* differ only in their weather_score values, present or absent, give the
\* same order and the same combined scores; with use_weather true an absent
\* weather score counts as 50.0.
C26_WeatherOnlyWhenUsed ==
  RankCalled =>
    IF call.use_weather
    THEN call.result =
           ranking_destinations(AllWithNeutralWeather(call.budget_matches),
                                call.chosen, call.travel_style, TRUE,
                                call.weather_weight)
    ELSE /\ \A i \in DOMAIN call.result :
              call.result[i]["combined_score"] = call.result[i]["match_score"]
         /\ AllWithoutWeather(call.result) =
              AllWithoutWeather(
                ranking_destinations(AllWithoutWeather(call.budget_matches),
                                     call.chosen, call.travel_style, FALSE,
                                     call.weather_weight))

\* a ranking without weather of a pool whose weather scores differ and
\* would give another order
C26_Witness ==
  /\ RankCalled
  /\ ~call.use_weather
  /\ call.chosen # << >>
  /\ \E i \in DOMAIN call.budget_matches :
       \E j \in DOMAIN call.budget_matches :
         /\ Has(call.budget_matches[i], "weather_score")
         /\ Has(call.budget_matches[j], "weather_score")
         /\ call.budget_matches[i]["weather_score"]
              # call.budget_matches[j]["weather_score"]
  /\ IdSeq(call.result)
       # IdSeq(ranking_destinations(call.budget_matches, call.chosen,
                                    call.travel_style, TRUE,
                                    call.weather_weight))


\* process_selection was called with an id that is not among the locations
Rejected ==
  /\ call.fn = "process_selection"
  /\ call.choice_id \notin Ids(call.locations)

\* C29: a choice whose id is not among the shown subset is rejected and
\* leaves the round state unchanged: chosen, id_used, round and the session
\* phase are the same as before the call.
C29_RejectedChoiceChangesNothing ==
  [][ (call' # call /\ Rejected') =>
        UNCHANGED << chosen, id_used, round, state >> ]_vars

\* a rejected choice in the third round, for the id of a destination that
\* was shown in an earlier round
C29_Witness ==
  /\ Rejected
  /\ call.round = 2
  /\ round = 2
  /\ state = "Matching"
  /\ Len(chosen) = 2
  /\ Len(id_used) = 6
  /\ call.choice_id \in Range(id_used)


\* how many destinations of a list have this id
CountId(ds, id) ==
  Cardinality({ i \in DOMAIN ds : Has(ds[i], "id") /\ ds[i]["id"] = id })

\* how many destinations of a list have no id
CountNoId(ds) == Cardinality({ i \in DOMAIN ds : ~Has(ds[i], "id") })

\* the ids of the destinations that have one
KnownIds(ds) == { ds[i]["id"] : i \in { j \in DOMAIN ds : Has(ds[j], "id") } }

===========================================================================
